---- MODULE Spec2Model ----
(***************************************************************************)
(* A model of the consensus Process of src/proc/proc.go: the message logs, *)
(* the once-flags, the event entry points (Propose, Prevote, Precommit,    *)
(* the three OnTimeout callbacks, StartRound) and the predicate-driven     *)
(* rules they retry.  Every handler is an operator from a Process record   *)
(* to the Process record the handler leaves behind; the calls it makes on  *)
(* its collaborators (Broadcaster, Timer, Committer, Catcher) are appended *)
(* to the field "out" in the order the code makes them.                    *)
(***************************************************************************)
EXTENDS Integers, Sequences, FiniteSets, TLC

(***************************************************************************)
(* Bounds of the model.                                                    *)
(***************************************************************************)
\* Rounds of the messages and of the process are 0..MaxRound.
MaxRound == 2
\* Heights of the messages are 1..MaxHeight; a process may reach MaxHeight+1.
MaxHeight == 2
\* Number of messages the environment hands to the process at its first height
\* and at each later height, and the last round of these messages.
MaxMsgs == 5
MaxLaterMsgs == 4
MaxMsgRound == 1
\* Number of messages in the logs of a process that has locked a value in an
\* earlier round and receives further messages.
MaxLockedMsgs == 10
\* The greatest round of the messages the Byzantine signatory sends, in a
\* system that starts afresh and in one that starts split.
MaxFreshRound == 0
MaxSplitRound == 1

(***************************************************************************)
(* Program constants.                                                      *)
(***************************************************************************)
\* F, the number of adversaries the Process withstands (Process.F).
F == 1
\* The participants: 3F+1 signatories, named by their index in the
\* signatory list of the round-robin scheduler.
Pids == 0..(3 * F)

InvalidRound == -1
NilValue == "nil"
\* Two values the Validator accepts and one it rejects.
Values == {"v1", "v2"}
InvalidValue == "bad"
\* Absence of an entry in a map of the message logs, and of a signatory.
NoMsg == "none"
NoPid == -1
NoPropose == [Value |-> NoMsg, ValidRound |-> InvalidRound, From |-> NoPid]

\* The Steps, ordered as the code compares them (CurrentStep < Prevoting).
Proposing == 0
Prevoting == 1
Precommitting == 2

OnceFlagTimeoutPrecommitUponSufficientPrecommits == 1
OnceFlagTimeoutPrevoteUponSufficientPrevotes == 2
OnceFlagPrecommitUponSufficientPrevotes == 4

Rounds == 0..MaxRound
Heights == 1..MaxHeight

(***************************************************************************)
(* Collaborators.                                                          *)
(***************************************************************************)
\* The round-robin Scheduler over the signatory list Pids.
Schedule(height, round) == (height + round) % (3 * F + 1)

\* The Validator.
Valid(value) == value \in Values

\* The Proposer of a process: one value per process, height and round.
ProposerPropose(whoami, height, round) ==
    IF (whoami + height) % 2 = 0 THEN "v1" ELSE "v2"

\* A call on a collaborator, as recorded in "out".
Call(call, h, r, v, vr) ==
    [call |-> call, h |-> h, r |-> r, v |-> v, vr |-> vr,
     from |-> NoPid, old |-> NoPropose]
\* An equivocation report: the new message (v, vr, from) and the stored one.
Catch(call, h, r, new, old) ==
    [call |-> call, h |-> h, r |-> r, v |-> new.Value, vr |-> new.ValidRound,
     from |-> new.From, old |-> old]
BroadcastPropose(h, r, v, vr) == Call("BroadcastPropose", h, r, v, vr)
BroadcastPrevote(h, r, v) == Call("BroadcastPrevote", h, r, v, InvalidRound)
BroadcastPrecommit(h, r, v) == Call("BroadcastPrecommit", h, r, v, InvalidRound)
TimeoutPropose(h, r) == Call("TimeoutPropose", h, r, NilValue, InvalidRound)
TimeoutPrevote(h, r) == Call("TimeoutPrevote", h, r, NilValue, InvalidRound)
TimeoutPrecommit(h, r) == Call("TimeoutPrecommit", h, r, NilValue, InvalidRound)
Commit(h, v) == Call("Commit", h, InvalidRound, v, InvalidRound)
CatchDoublePropose(h, r, new, old) == Catch("CatchDoublePropose", h, r, new, old)
CatchDoublePrevote(h, r, new, old) == Catch("CatchDoublePrevote", h, r, new, old)
CatchDoublePrecommit(h, r, new, old) == Catch("CatchDoublePrecommit", h, r, new, old)

Emit(s, call) == [s EXCEPT !.out = Append(@, call)]

(***************************************************************************)
(* The Process.                                                            *)
(***************************************************************************)
\* The Process in the default state, for the signatory whoami.
DefaultProcess(whoami) ==
    [ Whoami        |-> whoami,
      CurrentHeight |-> 1,
      CurrentRound  |-> 0,
      CurrentStep   |-> Proposing,
      LockedValue   |-> NilValue,
      LockedRound   |-> InvalidRound,
      ValidValue    |-> NilValue,
      ValidRound    |-> InvalidRound,
      ProposeLogs   |-> [r \in Rounds |-> NoPropose],
      PrevoteLogs   |-> [r \in Rounds |-> [q \in Pids |-> NoMsg]],
      PrecommitLogs |-> [r \in Rounds |-> [q \in Pids |-> NoMsg]],
      OnceFlags     |-> [r \in Rounds |-> {}],
      out           |-> << >> ]

\* State.Reset: the lock and the valid value go back to their defaults.
Reset(s) ==
    [s EXCEPT !.LockedValue = NilValue, !.LockedRound = InvalidRound,
              !.ValidValue = NilValue, !.ValidRound = InvalidRound]

checkOnceFlag(s, round, flag) == flag \in s.OnceFlags[round]
setOnceFlag(s, round, flag) == [s EXCEPT !.OnceFlags[round] = @ \cup {flag}]

\* len(logs[round]) and the number of votes of logs[round] that carry value.
LenVotes(logs, round) == Cardinality({q \in Pids : logs[round][q] # NoMsg})
VotesFor(logs, round, value) ==
    IF round \in Rounds
    THEN Cardinality({q \in Pids : logs[round][q] = value})
    ELSE 0

RECURSIVE tryPrecommitUponSufficientPrevotes(_)
RECURSIVE stepToPrecommitting(_)
RECURSIVE stepToPrevoting(_)
RECURSIVE tryPrevoteUponPropose(_)
RECURSIVE tryPrevoteUponSufficientPrevotes(_)

\* L34: schedule the prevote timeout.
tryTimeoutPrevoteUponSufficientPrevotes(s) ==
    IF checkOnceFlag(s, s.CurrentRound, OnceFlagTimeoutPrevoteUponSufficientPrevotes)
    THEN s
    ELSE IF s.CurrentStep # Prevoting
    THEN s
    ELSE LET s1 == IF LenVotes(s.PrevoteLogs, s.CurrentRound) = 2 * F + 1
                   THEN Emit(s, TimeoutPrevote(s.CurrentHeight, s.CurrentRound))
                   ELSE s
         IN  setOnceFlag(s1, s1.CurrentRound, OnceFlagTimeoutPrevoteUponSufficientPrevotes)

\* L44: precommit nil upon 2f+1 nil prevotes.
tryPrecommitNilUponSufficientPrevotes(s) ==
    IF s.CurrentStep # Prevoting
    THEN s
    ELSE IF VotesFor(s.PrevoteLogs, s.CurrentRound, NilValue) = 2 * F + 1
    THEN stepToPrecommitting(
             Emit(s, BroadcastPrecommit(s.CurrentHeight, s.CurrentRound, NilValue)))
    ELSE s

\* tryTimeoutPrecommitUponSufficientPrecommits without its once-flag.
tryTimeoutPrecommitWithoutFlag(s) ==
    IF LenVotes(s.PrecommitLogs, s.CurrentRound) = 2 * F + 1
    THEN Emit(s, TimeoutPrecommit(s.CurrentHeight, s.CurrentRound))
    ELSE s

\* L47: schedule the precommit timeout.
tryTimeoutPrecommitUponSufficientPrecommits(s) ==
    IF checkOnceFlag(s, s.CurrentRound, OnceFlagTimeoutPrecommitUponSufficientPrecommits)
    THEN s
    ELSE IF LenVotes(s.PrecommitLogs, s.CurrentRound) = 2 * F + 1
    THEN setOnceFlag(Emit(s, TimeoutPrecommit(s.CurrentHeight, s.CurrentRound)),
                     s.CurrentRound, OnceFlagTimeoutPrecommitUponSufficientPrecommits)
    ELSE s

\* tryPrecommitUponSufficientPrevotes without the lock on the value.
tryPrecommitWithoutLock(s) ==
    IF checkOnceFlag(s, s.CurrentRound, OnceFlagPrecommitUponSufficientPrevotes)
    THEN s
    ELSE IF s.CurrentStep < Prevoting
    THEN s
    ELSE LET propose == s.ProposeLogs[s.CurrentRound] IN
    IF propose = NoPropose
    THEN s
    ELSE IF VotesFor(s.PrevoteLogs, s.CurrentRound, propose.Value) < 2 * F + 1
    THEN s
    ELSE LET s1 == IF s.CurrentStep = Prevoting
                   THEN stepToPrecommitting(
                            Emit(s, BroadcastPrecommit(s.CurrentHeight, s.CurrentRound,
                                                       propose.Value)))
                   ELSE s
             s2 == setOnceFlag([s1 EXCEPT !.ValidValue = propose.Value,
                                          !.ValidRound = s1.CurrentRound],
                               s1.CurrentRound, OnceFlagPrecommitUponSufficientPrevotes)
         IN  IF s.CurrentStep = Prevoting
             THEN tryPrevoteUponSufficientPrevotes(tryPrevoteUponPropose(s2))
             ELSE s2

\* tryPrecommitUponSufficientPrevotes that locks the value without its round.
tryPrecommitLockingValueOnly(s) ==
    IF checkOnceFlag(s, s.CurrentRound, OnceFlagPrecommitUponSufficientPrevotes)
    THEN s
    ELSE IF s.CurrentStep < Prevoting
    THEN s
    ELSE LET propose == s.ProposeLogs[s.CurrentRound] IN
    IF propose = NoPropose
    THEN s
    ELSE IF VotesFor(s.PrevoteLogs, s.CurrentRound, propose.Value) < 2 * F + 1
    THEN s
    ELSE LET s1 == IF s.CurrentStep = Prevoting
                   THEN stepToPrecommitting(
                            Emit([s EXCEPT !.LockedValue = propose.Value],
                                 BroadcastPrecommit(s.CurrentHeight, s.CurrentRound,
                                                    propose.Value)))
                   ELSE s
             s2 == setOnceFlag([s1 EXCEPT !.ValidValue = propose.Value,
                                          !.ValidRound = s1.CurrentRound],
                               s1.CurrentRound, OnceFlagPrecommitUponSufficientPrevotes)
         IN  IF s.CurrentStep = Prevoting
             THEN tryPrevoteUponSufficientPrevotes(tryPrevoteUponPropose(s2))
             ELSE s2

\* tryPrecommitUponSufficientPrevotes that locks the value and its round and
\* leaves the valid value and the valid round as they are.
tryPrecommitWithoutValid(s) ==
    IF checkOnceFlag(s, s.CurrentRound, OnceFlagPrecommitUponSufficientPrevotes)
    THEN s
    ELSE IF s.CurrentStep < Prevoting
    THEN s
    ELSE LET propose == s.ProposeLogs[s.CurrentRound] IN
    IF propose = NoPropose
    THEN s
    ELSE IF VotesFor(s.PrevoteLogs, s.CurrentRound, propose.Value) < 2 * F + 1
    THEN s
    ELSE LET s1 == IF s.CurrentStep = Prevoting
                   THEN stepToPrecommitting(
                            Emit([s EXCEPT !.LockedValue = propose.Value,
                                           !.LockedRound = s.CurrentRound],
                                 BroadcastPrecommit(s.CurrentHeight, s.CurrentRound,
                                                    propose.Value)))
                   ELSE s
             s2 == setOnceFlag(s1, s1.CurrentRound,
                               OnceFlagPrecommitUponSufficientPrevotes)
         IN  IF s.CurrentStep = Prevoting
             THEN tryPrevoteUponSufficientPrevotes(tryPrevoteUponPropose(s2))
             ELSE s2

\* L36: precommit upon a proposal and 2f+1 prevotes for its value.
tryPrecommitUponSufficientPrevotes(s) ==
    IF checkOnceFlag(s, s.CurrentRound, OnceFlagPrecommitUponSufficientPrevotes)
    THEN s
    ELSE IF s.CurrentStep < Prevoting
    THEN s
    ELSE LET propose == s.ProposeLogs[s.CurrentRound] IN
    IF propose = NoPropose
    THEN s
    ELSE IF VotesFor(s.PrevoteLogs, s.CurrentRound, propose.Value) < 2 * F + 1
    THEN s
    ELSE LET s1 == IF s.CurrentStep = Prevoting
                   THEN stepToPrecommitting(
                            Emit([s EXCEPT !.LockedValue = propose.Value,
                                           !.LockedRound = s.CurrentRound],
                                 BroadcastPrecommit(s.CurrentHeight, s.CurrentRound,
                                                    propose.Value)))
                   ELSE s
             s2 == setOnceFlag([s1 EXCEPT !.ValidValue = propose.Value,
                                          !.ValidRound = s1.CurrentRound],
                               s1.CurrentRound, OnceFlagPrecommitUponSufficientPrevotes)
         IN  IF s.CurrentStep = Prevoting
             THEN tryPrevoteUponSufficientPrevotes(tryPrevoteUponPropose(s2))
             ELSE s2

stepToPrecommitting(s) ==
    tryPrecommitUponSufficientPrevotes([s EXCEPT !.CurrentStep = Precommitting])

stepToPrevoting(s) ==
    tryTimeoutPrevoteUponSufficientPrevotes(
        tryPrecommitNilUponSufficientPrevotes(
            tryPrecommitUponSufficientPrevotes([s EXCEPT !.CurrentStep = Prevoting])))

\* tryPrevoteUponPropose without regard for the lock.
tryPrevoteUponProposeUnlocked(s) ==
    IF s.CurrentStep # Proposing
    THEN s
    ELSE LET propose == s.ProposeLogs[s.CurrentRound] IN
    IF propose = NoPropose
    THEN s
    ELSE IF propose.ValidRound # InvalidRound
    THEN s
    ELSE stepToPrevoting(
             Emit(s, BroadcastPrevote(s.CurrentHeight, s.CurrentRound, propose.Value)))

\* L22: prevote upon a proposal without valid round.
tryPrevoteUponPropose(s) ==
    IF s.CurrentStep # Proposing
    THEN s
    ELSE LET propose == s.ProposeLogs[s.CurrentRound] IN
    IF propose = NoPropose
    THEN s
    ELSE IF propose.ValidRound # InvalidRound
    THEN s
    ELSE IF s.LockedRound = InvalidRound \/ s.LockedValue = propose.Value
    THEN stepToPrevoting(
             Emit(s, BroadcastPrevote(s.CurrentHeight, s.CurrentRound, propose.Value)))
    ELSE stepToPrevoting(
             Emit(s, BroadcastPrevote(s.CurrentHeight, s.CurrentRound, NilValue)))

\* tryPrevoteUponSufficientPrevotes without regard for the lock.
tryPrevoteUponSufficientPrevotesUnlocked(s) ==
    IF s.CurrentStep # Proposing
    THEN s
    ELSE LET propose == s.ProposeLogs[s.CurrentRound] IN
    IF propose = NoPropose
    THEN s
    ELSE IF propose.ValidRound = InvalidRound \/ propose.ValidRound >= s.CurrentRound
    THEN s
    ELSE IF VotesFor(s.PrevoteLogs, propose.ValidRound, propose.Value) < 2 * F + 1
    THEN s
    ELSE stepToPrevoting(
             Emit(s, BroadcastPrevote(s.CurrentHeight, s.CurrentRound, propose.Value)))

\* L28: prevote upon a proposal with a valid round and 2f+1 prevotes of it.
tryPrevoteUponSufficientPrevotes(s) ==
    IF s.CurrentStep # Proposing
    THEN s
    ELSE LET propose == s.ProposeLogs[s.CurrentRound] IN
    IF propose = NoPropose
    THEN s
    ELSE IF propose.ValidRound = InvalidRound \/ propose.ValidRound >= s.CurrentRound
    THEN s
    ELSE IF VotesFor(s.PrevoteLogs, propose.ValidRound, propose.Value) < 2 * F + 1
    THEN s
    ELSE IF s.LockedRound <= propose.ValidRound \/ s.LockedValue = propose.Value
    THEN stepToPrevoting(
             Emit(s, BroadcastPrevote(s.CurrentHeight, s.CurrentRound, propose.Value)))
    ELSE stepToPrevoting(
             Emit(s, BroadcastPrevote(s.CurrentHeight, s.CurrentRound, NilValue)))

\* StartRound of a proposer that always asks its Proposer for the value.
StartRoundWithoutValidValue(s, round) ==
    LET s1 == [s EXCEPT !.CurrentRound = round, !.CurrentStep = Proposing]
        s2 == IF Schedule(s1.CurrentHeight, s1.CurrentRound) # s1.Whoami
              THEN Emit(s1, TimeoutPropose(s1.CurrentHeight, s1.CurrentRound))
              ELSE Emit(s1, BroadcastPropose(s1.CurrentHeight, s1.CurrentRound,
                                             ProposerPropose(s1.Whoami, s1.CurrentHeight,
                                                             s1.CurrentRound),
                                             s1.ValidRound))
    IN  tryTimeoutPrevoteUponSufficientPrevotes(
            tryTimeoutPrecommitUponSufficientPrecommits(
                tryPrevoteUponSufficientPrevotes(
                    tryPrevoteUponPropose(
                        tryPrecommitNilUponSufficientPrevotes(
                            tryPrecommitUponSufficientPrevotes(s2))))))

\* L11: StartRound, with the rules it retries on return.
StartRound(s, round) ==
    LET s1 == [s EXCEPT !.CurrentRound = round, !.CurrentStep = Proposing]
        s2 == IF Schedule(s1.CurrentHeight, s1.CurrentRound) # s1.Whoami
              THEN Emit(s1, TimeoutPropose(s1.CurrentHeight, s1.CurrentRound))
              ELSE LET proposeValue ==
                           IF s1.ValidValue = NilValue
                           THEN ProposerPropose(s1.Whoami, s1.CurrentHeight, s1.CurrentRound)
                           ELSE s1.ValidValue
                   IN  Emit(s1, BroadcastPropose(s1.CurrentHeight, s1.CurrentRound,
                                                 proposeValue, s1.ValidRound))
    IN  tryTimeoutPrevoteUponSufficientPrevotes(
            tryTimeoutPrecommitUponSufficientPrecommits(
                tryPrevoteUponSufficientPrevotes(
                    tryPrevoteUponPropose(
                        tryPrecommitNilUponSufficientPrevotes(
                            tryPrecommitUponSufficientPrevotes(s2))))))

\* L10: Start.
Start(s) == StartRound(s, 0)

\* tryCommitUponSufficientPrecommits without the increment of the height.
tryCommitKeepingHeight(s, round) ==
    LET propose == s.ProposeLogs[round] IN
    IF propose = NoPropose
    THEN s
    ELSE IF VotesFor(s.PrecommitLogs, round, propose.Value) = 2 * F + 1
    THEN LET s1 == Emit(s, Commit(s.CurrentHeight, propose.Value))
             s2 == [s1 EXCEPT !.ProposeLogs = [r \in Rounds |-> NoPropose],
                              !.PrevoteLogs = [r \in Rounds |-> [q \in Pids |-> NoMsg]],
                              !.PrecommitLogs = [r \in Rounds |-> [q \in Pids |-> NoMsg]],
                              !.OnceFlags = [r \in Rounds |-> {}]]
         IN  StartRound(Reset(s2), 0)
    ELSE s

\* tryCommitUponSufficientPrecommits without the reset of the prevote log.
tryCommitKeepingPrevotes(s, round) ==
    LET propose == s.ProposeLogs[round] IN
    IF propose = NoPropose
    THEN s
    ELSE IF VotesFor(s.PrecommitLogs, round, propose.Value) = 2 * F + 1
    THEN LET s1 == Emit(s, Commit(s.CurrentHeight, propose.Value))
             s2 == [s1 EXCEPT !.CurrentHeight = @ + 1,
                              !.ProposeLogs = [r \in Rounds |-> NoPropose],
                              !.PrecommitLogs = [r \in Rounds |-> [q \in Pids |-> NoMsg]],
                              !.OnceFlags = [r \in Rounds |-> {}]]
         IN  StartRound(Reset(s2), 0)
    ELSE s

\* tryCommitUponSufficientPrecommits that commits the value of 2f+1 precommits
\* of a round with a proposal, whatever the value of the proposal.
tryCommitValueOfPrecommits(s, round) ==
    LET propose == s.ProposeLogs[round]
        agreed == {v \in Values \cup {NilValue} :
                      VotesFor(s.PrecommitLogs, round, v) = 2 * F + 1}
    IN
    IF propose = NoPropose
    THEN s
    ELSE IF agreed # {}
    THEN LET s1 == Emit(s, Commit(s.CurrentHeight, CHOOSE v \in agreed : TRUE))
             s2 == [s1 EXCEPT !.CurrentHeight = @ + 1,
                              !.ProposeLogs = [r \in Rounds |-> NoPropose],
                              !.PrevoteLogs = [r \in Rounds |-> [q \in Pids |-> NoMsg]],
                              !.PrecommitLogs = [r \in Rounds |-> [q \in Pids |-> NoMsg]],
                              !.OnceFlags = [r \in Rounds |-> {}]]
         IN  StartRound(Reset(s2), 0)
    ELSE s

\* L49: commit upon a proposal of the round and 2f+1 precommits for its value.
tryCommitUponSufficientPrecommits(s, round) ==
    LET propose == s.ProposeLogs[round] IN
    IF propose = NoPropose
    THEN s
    ELSE IF VotesFor(s.PrecommitLogs, round, propose.Value) = 2 * F + 1
    THEN LET s1 == Emit(s, Commit(s.CurrentHeight, propose.Value))
             s2 == [s1 EXCEPT !.CurrentHeight = @ + 1,
                              !.ProposeLogs = [r \in Rounds |-> NoPropose],
                              !.PrevoteLogs = [r \in Rounds |-> [q \in Pids |-> NoMsg]],
                              !.PrecommitLogs = [r \in Rounds |-> [q \in Pids |-> NoMsg]],
                              !.OnceFlags = [r \in Rounds |-> {}]]
         IN  StartRound(Reset(s2), 0)
    ELSE s

\* The skip rule counting the votes only, not the proposal.
trySkipCountingVotesOnly(s, round) ==
    IF round <= s.CurrentRound
    THEN s
    ELSE LET msgsInRound ==
                 LenVotes(s.PrevoteLogs, round) + LenVotes(s.PrecommitLogs, round)
         IN  IF msgsInRound = F + 1 THEN StartRound(s, round) ELSE s

\* L55: skip to a future round upon f+1 messages of it.
trySkipToFutureRound(s, round) ==
    IF round <= s.CurrentRound
    THEN s
    ELSE LET msgsInRound ==
                 (IF s.ProposeLogs[round] # NoPropose THEN 1 ELSE 0)
                 + LenVotes(s.PrevoteLogs, round)
                 + LenVotes(s.PrecommitLogs, round)
         IN  IF msgsInRound = F + 1 THEN StartRound(s, round) ELSE s

(***************************************************************************)
(* Messages.  A Propose is [Height, Round, Value, ValidRound, From]; a     *)
(* Prevote and a Precommit are [Height, Round, Value, From].  The insert   *)
(* operators return the Process after the insertion and whether the        *)
(* message was inserted.                                                   *)
(***************************************************************************)
ProposeEntry(m) == [Value |-> m.Value, ValidRound |-> m.ValidRound, From |-> m.From]
VoteEntry(value, from) == [Value |-> value, ValidRound |-> InvalidRound, From |-> from]

insertPropose(s, propose) ==
    IF propose.Height # s.CurrentHeight
    THEN [ok |-> FALSE, s |-> s]
    ELSE LET existingPropose == s.ProposeLogs[propose.Round] IN
    IF existingPropose # NoPropose
    THEN [ok |-> FALSE,
          s  |-> IF ProposeEntry(propose) # existingPropose
                 THEN Emit(s, CatchDoublePropose(propose.Height, propose.Round,
                                                 ProposeEntry(propose), existingPropose))
                 ELSE s]
    ELSE IF Schedule(propose.Height, propose.Round) # propose.From
    THEN [ok |-> FALSE, s |-> s]
    ELSE IF ~Valid(propose.Value)
    THEN [ok |-> FALSE, s |-> s]
    ELSE [ok |-> TRUE,
          s  |-> [s EXCEPT !.ProposeLogs[propose.Round] = ProposeEntry(propose)]]

\* insertPrevote that keeps the last prevote of a sender instead of the first.
insertPrevoteKeepingLast(s, prevote) ==
    IF prevote.Height # s.CurrentHeight
    THEN [ok |-> FALSE, s |-> s]
    ELSE LET existingPrevote == s.PrevoteLogs[prevote.Round][prevote.From] IN
    IF existingPrevote # NoMsg
    THEN [ok |-> FALSE,
          s  |-> IF prevote.Value # existingPrevote
                 THEN Emit([s EXCEPT !.PrevoteLogs[prevote.Round][prevote.From] = prevote.Value],
                           CatchDoublePrevote(prevote.Height, prevote.Round,
                                              VoteEntry(prevote.Value, prevote.From),
                                              VoteEntry(existingPrevote, prevote.From)))
                 ELSE s]
    ELSE [ok |-> TRUE,
          s  |-> [s EXCEPT !.PrevoteLogs[prevote.Round][prevote.From] = prevote.Value]]

insertPrevote(s, prevote) ==
    IF prevote.Height # s.CurrentHeight
    THEN [ok |-> FALSE, s |-> s]
    ELSE LET existingPrevote == s.PrevoteLogs[prevote.Round][prevote.From] IN
    IF existingPrevote # NoMsg
    THEN [ok |-> FALSE,
          s  |-> IF prevote.Value # existingPrevote
                 THEN Emit(s, CatchDoublePrevote(prevote.Height, prevote.Round,
                                                 VoteEntry(prevote.Value, prevote.From),
                                                 VoteEntry(existingPrevote, prevote.From)))
                 ELSE s]
    ELSE [ok |-> TRUE,
          s  |-> [s EXCEPT !.PrevoteLogs[prevote.Round][prevote.From] = prevote.Value]]

\* insertPrecommit without the test of the height.
insertPrecommitOfAnyHeight(s, precommit) ==
    LET existingPrecommit == s.PrecommitLogs[precommit.Round][precommit.From] IN
    IF existingPrecommit # NoMsg
    THEN [ok |-> FALSE,
          s  |-> IF precommit.Value # existingPrecommit
                 THEN Emit(s, CatchDoublePrecommit(precommit.Height, precommit.Round,
                                                   VoteEntry(precommit.Value, precommit.From),
                                                   VoteEntry(existingPrecommit, precommit.From)))
                 ELSE s]
    ELSE [ok |-> TRUE,
          s  |-> [s EXCEPT !.PrecommitLogs[precommit.Round][precommit.From] = precommit.Value]]

insertPrecommit(s, precommit) ==
    IF precommit.Height # s.CurrentHeight
    THEN [ok |-> FALSE, s |-> s]
    ELSE LET existingPrecommit == s.PrecommitLogs[precommit.Round][precommit.From] IN
    IF existingPrecommit # NoMsg
    THEN [ok |-> FALSE,
          s  |-> IF precommit.Value # existingPrecommit
                 THEN Emit(s, CatchDoublePrecommit(precommit.Height, precommit.Round,
                                                   VoteEntry(precommit.Value, precommit.From),
                                                   VoteEntry(existingPrecommit, precommit.From)))
                 ELSE s]
    ELSE [ok |-> TRUE,
          s  |-> [s EXCEPT !.PrecommitLogs[precommit.Round][precommit.From] = precommit.Value]]

(***************************************************************************)
(* The event entry points.                                                 *)
(***************************************************************************)
Propose(s, propose) ==
    LET ins == insertPropose(s, propose) IN
    IF ~ins.ok
    THEN ins.s
    ELSE tryPrevoteUponSufficientPrevotes(
             tryPrevoteUponPropose(
                 tryPrecommitUponSufficientPrevotes(
                     tryCommitUponSufficientPrecommits(
                         trySkipToFutureRound(ins.s, propose.Round), propose.Round))))

Prevote(s, prevote) ==
    LET ins == insertPrevote(s, prevote) IN
    IF ~ins.ok
    THEN ins.s
    ELSE tryTimeoutPrevoteUponSufficientPrevotes(
             tryPrevoteUponSufficientPrevotes(
                 tryPrecommitNilUponSufficientPrevotes(
                     tryPrecommitUponSufficientPrevotes(
                         trySkipToFutureRound(ins.s, prevote.Round)))))

\* Precommit that retries its rules for a message it did not insert, the
\* request of the timeout without its once-flag.
PrecommitOfAnyMessage(s, precommit) ==
    LET ins == insertPrecommit(s, precommit) IN
    tryTimeoutPrecommitWithoutFlag(
        tryCommitUponSufficientPrecommits(
            trySkipToFutureRound(ins.s, precommit.Round), precommit.Round))

Precommit(s, precommit) ==
    LET ins == insertPrecommit(s, precommit) IN
    IF ~ins.ok
    THEN ins.s
    ELSE tryTimeoutPrecommitUponSufficientPrecommits(
             tryCommitUponSufficientPrecommits(
                 trySkipToFutureRound(ins.s, precommit.Round), precommit.Round))

\* OnTimeoutPropose without the test of the step.
OnTimeoutProposeInAnyStep(s, height, round) ==
    IF height = s.CurrentHeight /\ round = s.CurrentRound
    THEN stepToPrevoting(
             Emit(s, BroadcastPrevote(s.CurrentHeight, s.CurrentRound, NilValue)))
    ELSE s

\* OnTimeoutPropose without the test of the round.
OnTimeoutProposeOfAnyRound(s, height, round) ==
    IF height = s.CurrentHeight /\ s.CurrentStep = Proposing
    THEN stepToPrevoting(
             Emit(s, BroadcastPrevote(s.CurrentHeight, s.CurrentRound, NilValue)))
    ELSE s

\* L57
OnTimeoutPropose(s, height, round) ==
    IF height = s.CurrentHeight /\ round = s.CurrentRound /\ s.CurrentStep = Proposing
    THEN stepToPrevoting(
             Emit(s, BroadcastPrevote(s.CurrentHeight, s.CurrentRound, NilValue)))
    ELSE s

\* OnTimeoutPrevote without the test of the step.
OnTimeoutPrevoteInAnyStep(s, height, round) ==
    IF height = s.CurrentHeight /\ round = s.CurrentRound
    THEN stepToPrecommitting(
             Emit(s, BroadcastPrecommit(s.CurrentHeight, s.CurrentRound, NilValue)))
    ELSE s

\* L61
OnTimeoutPrevote(s, height, round) ==
    IF height = s.CurrentHeight /\ round = s.CurrentRound /\ s.CurrentStep = Prevoting
    THEN stepToPrecommitting(
             Emit(s, BroadcastPrecommit(s.CurrentHeight, s.CurrentRound, NilValue)))
    ELSE s

\* OnTimeoutPrecommit with a test of the step, as the other two timeouts have.
OnTimeoutPrecommitWhenPrecommitting(s, height, round) ==
    IF height = s.CurrentHeight /\ round = s.CurrentRound /\ s.CurrentStep = Precommitting
    THEN StartRound(s, round + 1)
    ELSE s

\* L65
OnTimeoutPrecommit(s, height, round) ==
    IF height = s.CurrentHeight /\ round = s.CurrentRound
    THEN StartRound(s, round + 1)
    ELSE s

(***************************************************************************)
(* One Process and its environment.  The environment starts the Process,   *)
(* hands it messages and fires the timeouts the Process has requested from *)
(* its Timer.  The Process takes messages from any sender: it is for the   *)
(* Replica to filter them.                                                 *)
(*   p        the Process between two events (p.out is empty)               *)
(*   started  whether Start was called                                      *)
(*   timers   how often each timeout (call, round) was requested for the    *)
(*            current height of the Process                                 *)
(*   sent     the calls of the Broadcaster at the current height, in order  *)
(*   commits  the calls of Committer.Commit so far, in order                *)
(* A system of Processes that exchange their messages has                  *)
(*   procs    the Processes of the correct signatories that take part       *)
(*   net      the messages sent so far, by them and by the Byzantine one    *)
(*   alarms   the timeouts requested so far, as <<pid, call, height, round>>*)
(*   decided  for each of these Processes its calls of Committer.Commit     *)
(* A Process under observation has                                        *)
(*   last     the last event it was handed: the entry point, the message or *)
(*            the height and round of the timeout, and all the calls the    *)
(*            Process made on its collaborators during the event            *)
(* A Process run by a Replica has                                          *)
(*   replica  the Replica that is called with each message: its position in *)
(*            HandleMessage, its message queue, the Process state last      *)
(*            saved, and a record of the call it is in                      *)
(*   run      the Replica that reads its messages from channels: the        *)
(*            channels, its message queue, and a record of the messages     *)
(*            submitted and handed to the Process                           *)
(* The state machine of package state is held in                           *)
(*   machine  its state, height, round, polka and lock, the action the     *)
(*            last transition returned, and whether a transition panicked  *)
(***************************************************************************)
VARIABLES p, started, timers, sent, commits, procs, net, alarms, decided,
          machine, last, replica, run

vars == << p, started, timers, sent, commits, procs, net, alarms, decided,
           machine, last, replica, run >>

\* No event is on record.
NoEvent ==
    [event |-> "none",
     m     |-> [Height |-> 0, Round |-> 0, Value |-> NilValue,
                ValidRound |-> InvalidRound, From |-> NoPid],
     out   |-> << >>,
     effect |-> TRUE]

\* There is no system around the Process under study.
Alone ==
    /\ procs = << >>
    /\ net = {}
    /\ alarms = {}
    /\ decided = << >>

\* The Process is not under observation, and no Replica runs it.
Unobserved == last = NoEvent /\ replica = << >> /\ run = << >> /\ machine = << >>

\* The signatory of the Process under study.
Whoami == 2

TimerCalls == {"TimeoutPropose", "TimeoutPrevote", "TimeoutPrecommit"}
TimerKeys == TimerCalls \X (Rounds \cup {InvalidRound})
BroadcastCalls == {"BroadcastPropose", "BroadcastPrevote", "BroadcastPrecommit"}

ProposeMsg(h, r, v, vr, from) ==
    [Height |-> h, Round |-> r, Value |-> v, ValidRound |-> vr, From |-> from]
VoteMsg(h, r, v, from) == [Height |-> h, Round |-> r, Value |-> v, From |-> from]

\* The number of messages in the logs of the Process.
LogSize(s) ==
    Cardinality({r \in Rounds : s.ProposeLogs[r] # NoPropose})
    + Cardinality({rq \in Rounds \X Pids : s.PrevoteLogs[rq[1]][rq[2]] # NoMsg})
    + Cardinality({rq \in Rounds \X Pids : s.PrecommitLogs[rq[1]][rq[2]] # NoMsg})

\* A message that is not inserted leaves the Process as it is, so the
\* environment hands over the messages that are inserted: those of the current
\* height, a Propose of the scheduled proposer with a valid value for a round
\* without proposal, a vote of a sender without vote in the round.  The
\* handlers treat the sender of a vote only as a key of the log, so the senders
\* of the votes of one round come in the order of the signatory list.
Receiving(s, maxHeight, maxMsgs) ==
    /\ s.CurrentHeight <= maxHeight
    /\ LogSize(s) < (IF s.CurrentHeight = 1 THEN maxMsgs ELSE MaxLaterMsgs)
NextSenders(logs, round) ==
    {q \in Pids : /\ logs[round][q] = NoMsg
                  /\ \A q2 \in Pids : q2 < q => logs[round][q2] # NoMsg}

Calls(s, names) == SelectSeq(s.out, LAMBDA c : c.call \in names)
Fresh(s) == [s EXCEPT !.out = << >>]

\* The Process and the records of its collaborators after an event that
\* leaves the Process s: the calls it made reach the collaborators.  The records
\* of the Timer and of the Broadcaster start afresh with a new height; the
\* requests the event made for a height the Process has left by its end are
\* counted under the round InvalidRound.
After(g, s) ==
    LET old == s.CurrentHeight = g.p.CurrentHeight
        now == SelectSeq(s.out, LAMBDA c : c.h = s.CurrentHeight)
        stale == SelectSeq(s.out, LAMBDA c : c.h # s.CurrentHeight)
    IN  [ p       |-> Fresh(s),
          timers  |-> [k \in TimerKeys |->
                         (IF old THEN g.timers[k] ELSE 0)
                         + IF k[2] = InvalidRound
                           THEN Len(SelectSeq(stale, LAMBDA c : c.call = k[1]))
                           ELSE Len(SelectSeq(now, LAMBDA c : c.call = k[1] /\ c.r = k[2]))],
          sent    |-> (IF old THEN g.sent ELSE << >>)
                      \o SelectSeq(now, LAMBDA c : c.call \in BroadcastCalls),
          commits |-> g.commits \o Calls(s, {"Commit"}) ]

Constructed ==
    [ p       |-> DefaultProcess(Whoami),
      timers  |-> [k \in TimerKeys |-> 0],
      sent    |-> << >>,
      commits |-> << >> ]

Now == [p |-> p, timers |-> timers, sent |-> sent, commits |-> commits]

Becomes(g) ==
    /\ p' = g.p
    /\ timers' = g.timers
    /\ sent' = g.sent
    /\ commits' = g.commits
    /\ started' = TRUE
    /\ UNCHANGED << procs, net, alarms, decided, machine, last, replica, run >>

Event(s) == Becomes(After(Now, s))

Init ==
    /\ p = Constructed.p
    /\ timers = Constructed.timers
    /\ sent = Constructed.sent
    /\ commits = Constructed.commits
    /\ started = FALSE
    /\ Alone
    /\ Unobserved

DoStart ==
    /\ ~started
    /\ Event(Start(p))

RecvPropose(maxHeight, maxMsgs, rounds) ==
    /\ started
    /\ Receiving(p, maxHeight, maxMsgs)
    /\ \E r \in rounds, v \in Values, vr \in InvalidRound..MaxRound :
          /\ p.ProposeLogs[r] = NoPropose
          /\ Event(Propose(p, ProposeMsg(p.CurrentHeight, r, v, vr,
                                         Schedule(p.CurrentHeight, r))))

RecvPrevote(maxHeight, maxMsgs, rounds) ==
    /\ started
    /\ Receiving(p, maxHeight, maxMsgs)
    /\ \E r \in rounds, v \in Values \cup {NilValue} :
          \E q \in NextSenders(p.PrevoteLogs, r) :
              Event(Prevote(p, VoteMsg(p.CurrentHeight, r, v, q)))

RecvPrecommit(maxHeight, maxMsgs, rounds) ==
    /\ started
    /\ Receiving(p, maxHeight, maxMsgs)
    /\ \E r \in rounds, v \in Values \cup {NilValue} :
          \E q \in NextSenders(p.PrecommitLogs, r) :
              Event(Precommit(p, VoteMsg(p.CurrentHeight, r, v, q)))

DoPropose == RecvPropose(MaxHeight, MaxMsgs, 0..MaxMsgRound)
DoPrevote == RecvPrevote(MaxHeight, MaxMsgs, 0..MaxMsgRound)
DoPrecommit == RecvPrecommit(MaxHeight, MaxMsgs, 0..MaxMsgRound)

DoTimeoutPropose ==
    /\ started
    /\ \E r \in Rounds :
          /\ timers[<<"TimeoutPropose", r>>] > 0
          /\ Event(OnTimeoutPropose(p, p.CurrentHeight, r))

DoTimeoutPrevote ==
    /\ started
    /\ \E r \in Rounds :
          /\ timers[<<"TimeoutPrevote", r>>] > 0
          /\ Event(OnTimeoutPrevote(p, p.CurrentHeight, r))

DoTimeoutPrecommit ==
    /\ started
    /\ \E r \in Rounds :
          /\ timers[<<"TimeoutPrecommit", r>>] > 0
          /\ r < MaxRound
          /\ Event(OnTimeoutPrecommit(p, p.CurrentHeight, r))

Next ==
    \/ DoStart
    \/ DoPropose
    \/ DoPrevote
    \/ DoPrecommit
    \/ DoTimeoutPropose
    \/ DoTimeoutPrevote
    \/ DoTimeoutPrecommit

Spec == Init /\ [][Next]_vars

(***************************************************************************)
(* A Process that has gone through a round with 2f+1 prevotes for a value  *)
(* and receives further messages of its first height, of any round.  The   *)
(* runs start after one of three sequences of messages:                    *)
(*   LockedLate   2f+1 prevotes for v1 at round 0, then the proposal of v2  *)
(*                and 2f+1 prevotes for v2 at round 1: locked on (v2, 1);   *)
(*   LockedEarly  the proposal of v1 and 2f+1 prevotes for v1 at round 0,   *)
(*                then 2f+1 prevotes for v2 at round 1: locked on (v1, 0);  *)
(*   Unlocked     2f+1 prevotes for v1 and one for nil at round 0, then     *)
(*                2f+1 nil precommits at round 0: no lock.                  *)
(***************************************************************************)
RECURSIVE Handle(_, _)
Handle(g, events) ==
    IF events = << >>
    THEN g
    ELSE LET e == Head(events)
             s == CASE e.type = "Start"     -> Start(g.p)
                    [] e.type = "Propose"   -> Propose(g.p, e.m)
                    [] e.type = "Prevote"   -> Prevote(g.p, e.m)
                    [] e.type = "Precommit" -> Precommit(g.p, e.m)
         IN  Handle(After(g, s), Tail(events))

StartEvent == [type |-> "Start", m |-> VoteMsg(1, 0, NilValue, NoPid)]
PrevoteEvents(r, v, n) ==
    [q \in 1..n |-> [type |-> "Prevote", m |-> VoteMsg(1, r, v, q - 1)]]
PrecommitEvents(r, v, n) ==
    [q \in 1..n |-> [type |-> "Precommit", m |-> VoteMsg(1, r, v, q - 1)]]
ProposeEvent(r, v) ==
    [type |-> "Propose", m |-> ProposeMsg(1, r, v, InvalidRound, Schedule(1, r))]

LockedLate ==
    Handle(Constructed,
           << StartEvent >> \o PrevoteEvents(0, "v1", 2 * F + 1)
           \o << ProposeEvent(1, "v2") >> \o PrevoteEvents(1, "v2", 2 * F + 1))
LockedEarly ==
    Handle(Constructed,
           << StartEvent, ProposeEvent(0, "v1") >> \o PrevoteEvents(0, "v1", 2 * F + 1)
           \o PrevoteEvents(1, "v2", 2 * F + 1))
Unlocked ==
    Handle(Constructed,
           << StartEvent >> \o PrevoteEvents(0, "v1", 2 * F + 1)
           \o << [type |-> "Prevote", m |-> VoteMsg(1, 0, NilValue, 2 * F + 1)] >>
           \o PrecommitEvents(0, NilValue, 2 * F + 1))

InitLocked ==
    /\ started = TRUE
    /\ Alone
    /\ Unobserved
    /\ \E g \in {LockedLate, LockedEarly, Unlocked} :
          /\ p = g.p
          /\ timers = g.timers
          /\ sent = g.sent
          /\ commits = g.commits

LockedPropose == RecvPropose(1, MaxLockedMsgs, Rounds)
LockedPrevote == RecvPrevote(1, MaxLockedMsgs, Rounds)
LockedPrecommit == RecvPrecommit(1, MaxLockedMsgs, Rounds)

NextLocked ==
    \/ LockedPropose
    \/ LockedPrevote
    \/ LockedPrecommit
    \/ DoTimeoutPropose
    \/ DoTimeoutPrevote
    \/ DoTimeoutPrecommit

SpecLocked == InitLocked /\ [][NextLocked]_vars

(***************************************************************************)
(* A system of 3F+1 signatories of which one is Byzantine: the proposer of *)
(* the first round.  Each correct signatory runs a Process; what a Process *)
(* broadcasts joins the messages in flight, and any message in flight is   *)
(* handed to any Process at any time, in any order; a timeout a Process    *)
(* has requested fires at any time.  The Byzantine signatory signs what it *)
(* likes, under its own name: its messages are in flight from the start.   *)
(* The runs start in one of two situations:                                *)
(*   FreshSystem  two correct signatories have started and the Byzantine   *)
(*                one has sent messages of round 0; the third correct      *)
(*                signatory is slow and takes no part;                     *)
(*   SplitSystem  the Byzantine signatory has sent messages of rounds 0    *)
(*                and 1; signatories 0 and 3 have taken its proposal of v1 *)
(*                and precommitted it in round 0, signatory 0 has committed*)
(*                it, and two Byzantine votes of round 1 have moved        *)
(*                signatories 2 and 3 to round 1, which 2 proposes v2 for. *)
(***************************************************************************)
Byzantine == Schedule(1, 0)
Correct == Pids \ {Byzantine}

Msg(type, h, r, v, vr, from) ==
    [type |-> type, Height |-> h, Round |-> r, Value |-> v, ValidRound |-> vr,
     From |-> from]
Vote(type, r, v, from) == Msg(type, 1, r, v, InvalidRound, from)

\* The messages of the given rounds the Byzantine signatory signs.
ByzantineMsgs(rounds) ==
    {Msg("Propose", 1, r, v, InvalidRound, Byzantine) :
        r \in {r \in rounds : Schedule(1, r) = Byzantine}, v \in Values}
    \cup {Vote(type, r, v, Byzantine) :
        type \in {"Prevote", "Precommit"}, r \in rounds, v \in Values}

OutCalls(s, names) ==
    {s.out[k] : k \in {k \in 1..Len(s.out) : s.out[k].call \in names}}
\* The Broadcaster of signatory i signs the message and sends it to all.
Broadcasts(s, i) ==
    {Msg(CASE c.call = "BroadcastPropose" -> "Propose"
           [] c.call = "BroadcastPrevote" -> "Prevote"
           [] c.call = "BroadcastPrecommit" -> "Precommit",
         c.h, c.r, c.v, c.vr, i) : c \in OutCalls(s, BroadcastCalls)}
Alarms(s, i) == {<<i, c.call, c.h, c.r>> : c \in OutCalls(s, TimerCalls)}

\* The system after an event that leaves the Process of signatory i as s.
SysAfter(g, i, s) ==
    [ procs   |-> [g.procs EXCEPT ![i] = Fresh(s)],
      net     |-> g.net \cup Broadcasts(s, i),
      alarms  |-> g.alarms \cup Alarms(s, i),
      decided |-> [g.decided EXCEPT ![i] = @ \o Calls(s, {"Commit"})] ]

Receive(s, m) ==
    CASE m.type = "Propose" ->
           Propose(s, ProposeMsg(m.Height, m.Round, m.Value, m.ValidRound, m.From))
      [] m.type = "Prevote" -> Prevote(s, VoteMsg(m.Height, m.Round, m.Value, m.From))
      [] m.type = "Precommit" -> Precommit(s, VoteMsg(m.Height, m.Round, m.Value, m.From))

\* The log of s has room for m: a message without room changes nothing.
HasRoom(s, m) ==
    CASE m.type = "Propose" -> s.ProposeLogs[m.Round] = NoPropose
      [] m.type = "Prevote" -> s.PrevoteLogs[m.Round][m.From] = NoMsg
      [] m.type = "Precommit" -> s.PrecommitLogs[m.Round][m.From] = NoMsg

RECURSIVE SysHandle(_, _)
SysHandle(g, deliveries) ==
    IF deliveries = << >>
    THEN g
    ELSE LET d == Head(deliveries)
         IN  SysHandle(SysAfter(g, d.to, Receive(g.procs[d.to], d.m)), Tail(deliveries))

\* The signatories "active" have started; the Byzantine one has sent.
SysStarted(active, sentByByzantine) ==
    [ procs   |-> [i \in active |-> Fresh(Start(DefaultProcess(i)))],
      net     |-> sentByByzantine
                  \cup UNION {Broadcasts(Start(DefaultProcess(i)), i) : i \in active},
      alarms  |-> UNION {Alarms(Start(DefaultProcess(i)), i) : i \in active},
      decided |-> [i \in active |-> << >>] ]

\* Each message of ms, in order, to each signatory of is, in order.
ToEach(is, ms) ==
    [k \in 1..(Len(is) * Len(ms)) |->
        [to |-> is[((k - 1) \div Len(ms)) + 1], m |-> ms[((k - 1) % Len(ms)) + 1]]]

FreshSystem == SysStarted({0, 2}, ByzantineMsgs(0..MaxFreshRound))
SplitSystem ==
    SysHandle(SysStarted(Correct, ByzantineMsgs(0..MaxSplitRound)),
        ToEach(<< 0, 3 >>, << Msg("Propose", 1, 0, "v1", InvalidRound, Byzantine),
                              Vote("Prevote", 0, "v1", 0),
                              Vote("Prevote", 0, "v1", 3),
                              Vote("Prevote", 0, "v1", Byzantine) >>)
        \o ToEach(<< 0 >>, << Vote("Precommit", 0, "v1", 0),
                              Vote("Precommit", 0, "v1", 3),
                              Vote("Precommit", 0, "v1", Byzantine) >>)
        \o ToEach(<< 2, 3 >>, << Vote("Prevote", 1, "v2", Byzantine),
                                 Vote("Precommit", 1, "v2", Byzantine) >>))

SysNow == [procs |-> procs, net |-> net, alarms |-> alarms, decided |-> decided]
SysBecomes(g) ==
    /\ procs' = g.procs
    /\ net' = g.net
    /\ alarms' = g.alarms
    /\ decided' = g.decided
    /\ UNCHANGED << p, started, timers, sent, commits, last, replica, run,
                    machine >>

InitSystem ==
    /\ p = Constructed.p
    /\ timers = Constructed.timers
    /\ sent = Constructed.sent
    /\ commits = Constructed.commits
    /\ started = FALSE
    /\ Unobserved
    /\ \E g \in {FreshSystem, SplitSystem} :
          /\ procs = g.procs
          /\ net = g.net
          /\ alarms = g.alarms
          /\ decided = g.decided

\* A message in flight reaches a Process that has not left the first height.
DeliverMessage ==
    \E i \in DOMAIN procs, m \in net :
        /\ procs[i].CurrentHeight = 1
        /\ m.Height = 1
        /\ HasRoom(procs[i], m)
        /\ SysBecomes(SysAfter(SysNow, i, Receive(procs[i], m)))

\* A timeout a Process has requested fires.
FireTimeout ==
    \E a \in alarms :
        /\ a[3] = 1
        /\ procs[a[1]].CurrentHeight = 1
        /\ a[2] = "TimeoutPrecommit" => a[4] < MaxRound
        /\ SysBecomes(SysAfter(SysNow, a[1],
               CASE a[2] = "TimeoutPropose" -> OnTimeoutPropose(procs[a[1]], a[3], a[4])
                 [] a[2] = "TimeoutPrevote" -> OnTimeoutPrevote(procs[a[1]], a[3], a[4])
                 [] a[2] = "TimeoutPrecommit" ->
                        OnTimeoutPrecommit(procs[a[1]], a[3], a[4])))

NextSystem ==
    \/ DeliverMessage
    \/ FireTimeout

SpecSystem == InitSystem /\ [][NextSystem]_vars

(***************************************************************************)
(* Properties.                                                             *)
(***************************************************************************)
\* C1: no two Processes of correct signatories call Committer.Commit with
\* different values for the same height, whatever the Byzantine signatory
\* sends, in whatever order the messages arrive and the timeouts fire.
C1_Agreement ==
    \A i, j \in DOMAIN decided :
        \A k \in 1..Len(decided[i]), l \in 1..Len(decided[j]) :
            decided[i][k].h = decided[j][l].h => decided[i][k].v = decided[j][l].v

\* Signatory 0 has committed in round 0; signatory 3, which the Byzantine votes
\* took to round 1, where another value is proposed and it has prevoted Nil,
\* has committed too.
C1_TwoCommitted ==
    /\ 3 \in DOMAIN decided
    /\ Len(decided[0]) > 0 /\ Len(decided[3]) > 0
    /\ Vote("Prevote", 1, NilValue, 3) \in net
    /\ \E m \in net : /\ m.type = "Propose" /\ m.Height = 1 /\ m.Round = 1
                       /\ m.Value # decided[3][1].v
\* Both signatories of the fresh system have committed.
C1_TwoCommittedAtOnce ==
    /\ DOMAIN decided = {0, 2}
    /\ Len(decided[0]) > 0 /\ Len(decided[2]) > 0

EmptyLogs(s) ==
    /\ \A r \in Rounds : s.ProposeLogs[r] = NoPropose
    /\ \A r \in Rounds, q \in Pids :
          s.PrevoteLogs[r][q] = NoMsg /\ s.PrecommitLogs[r][q] = NoMsg
    /\ \A r \in Rounds : s.OnceFlags[r] = {}

\* C2: the k-th call of Committer.Commit carries the height h0 + k - 1, where
\* h0 = 1 is the height the Process started at: no height is committed twice,
\* skipped or committed after a greater one.
C2_CommitsInHeightOrder ==
    /\ \A k \in 1..Len(commits) : commits[k].h = k
    /\ started => Len(commits) = p.CurrentHeight - 1

C2_TwoCommits == Len(commits) = 2 /\ p.CurrentHeight = 3

\* C3: no call of Propose or Precommit returns leaving, at the current height,
\* a round whose proposal has value v and whose precommit log holds at least
\* 2f+1 precommits for v: the Process has committed (h, v) and left the height.
CommitPending(s) ==
    \E r \in Rounds :
        /\ s.ProposeLogs[r] # NoPropose
        /\ VotesFor(s.PrecommitLogs, r, s.ProposeLogs[r].Value) >= 2 * F + 1
C3_CommitsUponProposalAndPrecommits == ~CommitPending(p)

SameHeight == p'.CurrentHeight = p.CurrentHeight
SameRound == SameHeight /\ p'.CurrentRound = p.CurrentRound
SameLogs ==
    /\ p'.ProposeLogs = p.ProposeLogs
    /\ p'.PrevoteLogs = p.PrevoteLogs
    /\ p'.PrecommitLogs = p.PrecommitLogs
\* The calls of the Broadcaster made by the event.
NewSent == IF SameHeight THEN SubSeq(sent', Len(sent) + 1, Len(sent')) ELSE sent'
NewPrevotes == SelectSeq(NewSent, LAMBDA c : c.call = "BroadcastPrevote")
NewPrecommits == SelectSeq(NewSent, LAMBDA c : c.call = "BroadcastPrecommit")
SameLock == p'.LockedValue = p.LockedValue /\ p'.LockedRound = p.LockedRound
SameValid == p'.ValidValue = p.ValidValue /\ p'.ValidRound = p.ValidRound

\* The current round of s holds a proposal and 2f+1 prevotes for its value.
Polka(s) ==
    /\ s.ProposeLogs[s.CurrentRound] # NoPropose
    /\ VotesFor(s.PrevoteLogs, s.CurrentRound,
                s.ProposeLogs[s.CurrentRound].Value) >= 2 * F + 1
\* The rule P4 has taken effect in the current round of s.
Precommitted(s) ==
    checkOnceFlag(s, s.CurrentRound, OnceFlagPrecommitUponSufficientPrevotes)

\* C5: with a proposal of v and 2f+1 prevotes for v in the current round r,
\* the first event that leaves the Process in a step after Proposing makes the
\* rule P4 take effect: from Prevoting the Process locks (v, r), broadcasts
\* the one Precommit(h, r, v), moves to Precommitting and sets the valid value
\* to (v, r); when the Process was already Precommitting only the valid value
\* is set and nothing is broadcast; while the Process stays Proposing nothing
\* changes; once the rule has taken effect in a round, no later event of the
\* round changes the lock or the valid value or broadcasts a precommit.
C5_PrecommitUponPolka ==
    [][LET v == p'.ProposeLogs[p'.CurrentRound].Value
           r == p'.CurrentRound
           first == Precommitted(p') /\ ~(SameRound /\ Precommitted(p))
       IN  /\ Polka(p') /\ p'.CurrentStep >= Prevoting => Precommitted(p')
           /\ p'.CurrentStep = Proposing => ~Precommitted(p')
           /\ first =>
                 /\ Polka(p')
                 /\ p'.CurrentStep = Precommitting
                 /\ p'.ValidValue = v /\ p'.ValidRound = r
                 /\ IF SameRound /\ p.CurrentStep = Precommitting
                    THEN SameLock /\ NewSent = << >>
                    ELSE /\ p'.LockedValue = v /\ p'.LockedRound = r
                         /\ NewPrecommits = << BroadcastPrecommit(p'.CurrentHeight, r, v) >>
           /\ SameRound /\ p'.CurrentStep = Proposing =>
                 SameLock /\ SameValid /\ NewPrecommits = << >>
           /\ SameRound /\ Precommitted(p) =>
                 SameLock /\ SameValid /\ NewPrecommits = << >>]_vars

\* The rule took effect from Prevoting: lock, valid value and precommit.
C5_LockedOnPolka ==
    /\ Polka(p) /\ Precommitted(p)
    /\ p.CurrentStep = Precommitting
    /\ p.LockedRound = p.CurrentRound /\ p.ValidRound = p.CurrentRound
    /\ p.LockedValue = p.ProposeLogs[p.CurrentRound].Value
    /\ \E k \in 1..Len(sent) :
          sent[k] = BroadcastPrecommit(p.CurrentHeight, p.CurrentRound, p.LockedValue)
\* The rule took effect when the Process was already Precommitting.
C5_ValidWithoutLock ==
    /\ Polka(p) /\ Precommitted(p)
    /\ p.ValidRound = p.CurrentRound /\ p.LockedRound = InvalidRound
\* The proposal and the prevotes are there while the Process is Proposing.
C5_PolkaWhileProposing ==
    /\ Polka(p) /\ p.CurrentStep = Proposing /\ p.ValidRound = InvalidRound

\* The event evaluates the prevote rules for the round it leaves the Process
\* in: it has started the round, or it has put a message into the logs while
\* the Process was Proposing.
PrevoteRulesTried ==
    /\ SameHeight
    /\ \/ p'.CurrentRound # p.CurrentRound
       \/ p.CurrentStep = Proposing /\ ~SameLogs

\* C6: when the Process is Proposing and its current round r holds a proposal
\* of v without valid round, it broadcasts the one Prevote(h, r, v) if it is
\* not locked or locked on v, and the one Prevote(h, r, Nil) otherwise, and
\* leaves the step Proposing; no event returns with such a proposal pending in
\* step Proposing; a proposal that arrives for the current round in a later
\* step causes no prevote.
C6_PrevoteUponPropose ==
    [][LET propose == p'.ProposeLogs[p'.CurrentRound]
           r == p'.CurrentRound
       IN  /\ ~(/\ p'.CurrentStep = Proposing
                /\ propose # NoPropose
                /\ propose.ValidRound = InvalidRound)
           /\ (/\ PrevoteRulesTried
               /\ propose # NoPropose
               /\ propose.ValidRound = InvalidRound) =>
                 /\ p'.CurrentStep >= Prevoting
                 /\ NewPrevotes =
                      << BroadcastPrevote(
                             p'.CurrentHeight, r,
                             IF p.LockedRound = InvalidRound \/ p.LockedValue = propose.Value
                             THEN propose.Value
                             ELSE NilValue) >>
           /\ (/\ SameRound
               /\ p.CurrentStep # Proposing
               /\ p.ProposeLogs[r] = NoPropose
               /\ propose # NoPropose) =>
                 NewPrevotes = << >>]_vars

\* Locked on another value than the one proposed without valid round, in a
\* round without propose timeout: the prevote for Nil comes from the rule.
C6_PrevotedNilWhenLocked ==
    LET propose == p.ProposeLogs[p.CurrentRound] IN
    /\ propose # NoPropose
    /\ propose.ValidRound = InvalidRound
    /\ p.LockedRound # InvalidRound
    /\ p.LockedRound < p.CurrentRound
    /\ p.LockedValue # propose.Value
    /\ p.CurrentStep >= Prevoting
    /\ timers[<<"TimeoutPropose", p.CurrentRound>>] = 0
    /\ \E k \in 1..Len(sent) :
          sent[k] = BroadcastPrevote(p.CurrentHeight, p.CurrentRound, NilValue)
\* Not locked: the prevote is for the proposed value.
C6_PrevotedValue ==
    LET propose == p.ProposeLogs[p.CurrentRound] IN
    /\ propose # NoPropose
    /\ propose.ValidRound = InvalidRound
    /\ p.LockedRound = InvalidRound
    /\ \E k \in 1..Len(sent) :
          sent[k] = BroadcastPrevote(p.CurrentHeight, p.CurrentRound, propose.Value)

\* C7: when the Process is Proposing and its current round r holds a proposal
\* (v, vr) with 0 <= vr < r and round vr holds 2f+1 prevotes for v, it
\* broadcasts the one Prevote(h, r, v) if lockedRound <= vr or lockedValue = v,
\* and the one Prevote(h, r, Nil) otherwise, and leaves the step Proposing,
\* whichever of the proposal and the prevotes came last; with vr >= r or fewer
\* prevotes for v at vr it stays Proposing and broadcasts no prevote.
C7_PrevoteUponSufficientPrevotes ==
    [][LET propose == p'.ProposeLogs[p'.CurrentRound]
           r == p'.CurrentRound
           vr == propose.ValidRound
           open == /\ vr < r
                   /\ VotesFor(p'.PrevoteLogs, vr, propose.Value) >= 2 * F + 1
       IN  (propose # NoPropose /\ vr # InvalidRound) =>
             /\ ~(p'.CurrentStep = Proposing /\ open)
             /\ PrevoteRulesTried =>
                   IF open
                   THEN /\ p'.CurrentStep >= Prevoting
                        /\ NewPrevotes =
                             << BroadcastPrevote(
                                    p'.CurrentHeight, r,
                                    IF p.LockedRound <= vr \/ p.LockedValue = propose.Value
                                    THEN propose.Value
                                    ELSE NilValue) >>
                   ELSE /\ p'.CurrentStep = Proposing
                        /\ NewPrevotes = << >>]_vars

\* Locked on another value in a round not after the valid round of the
\* proposal: the Process prevotes the proposed value.
C7_PrevotedValueOverLock ==
    LET propose == p.ProposeLogs[p.CurrentRound] IN
    /\ propose # NoPropose
    /\ propose.ValidRound # InvalidRound
    /\ propose.ValidRound < p.CurrentRound
    /\ p.LockedRound # InvalidRound
    /\ p.LockedRound <= propose.ValidRound
    /\ p.LockedValue # propose.Value
    /\ \E k \in 1..Len(sent) :
          sent[k] = BroadcastPrevote(p.CurrentHeight, p.CurrentRound, propose.Value)
\* Locked on another value in a round after the valid round of the proposal,
\* in a round without propose timeout: the Process prevotes Nil.
C7_PrevotedNilWhenLockedLater ==
    LET propose == p.ProposeLogs[p.CurrentRound] IN
    /\ propose # NoPropose
    /\ propose.ValidRound # InvalidRound
    /\ propose.ValidRound < p.LockedRound
    /\ p.LockedRound < p.CurrentRound
    /\ p.LockedValue # propose.Value
    /\ VotesFor(p.PrevoteLogs, propose.ValidRound, propose.Value) >= 2 * F + 1
    /\ p.CurrentStep = Prevoting
    /\ \E k \in 1..Len(sent) :
          sent[k] = BroadcastPrevote(p.CurrentHeight, p.CurrentRound, NilValue)
\* The proposal waits in step Proposing for the prevotes of its valid round.
C7_WaitsForPrevotes ==
    LET propose == p.ProposeLogs[p.CurrentRound] IN
    /\ propose # NoPropose
    /\ propose.ValidRound # InvalidRound
    /\ propose.ValidRound < p.CurrentRound
    /\ p.CurrentStep = Proposing
    /\ VotesFor(p.PrevoteLogs, propose.ValidRound, propose.Value) < 2 * F + 1
    /\ LenVotes(p.PrevoteLogs, propose.ValidRound) >= 2 * F + 1

\* C8: no event returns leaving the Process in step Prevoting with 2f+1 or
\* more prevotes for Nil in its current round, whether the prevotes came
\* before or after the Process entered the step: it has broadcast
\* Precommit(h, r, Nil) and moved to Precommitting.
C8_PrecommitNilUponNilPolka ==
    ~(/\ p.CurrentStep = Prevoting
      /\ VotesFor(p.PrevoteLogs, p.CurrentRound, NilValue) >= 2 * F + 1)

\* C9: whenever the Process is in step Prevoting and its current round holds
\* 2f+1 or more prevotes of any values, TimeoutPrevote(h, r) has been requested
\* exactly once for the round, also when the Process entered Prevoting with
\* fewer prevotes.
C9_TimeoutPrevoteRequested ==
    (/\ p.CurrentStep = Prevoting
     /\ LenVotes(p.PrevoteLogs, p.CurrentRound) >= 2 * F + 1) =>
        timers[<<"TimeoutPrevote", p.CurrentRound>>] = 1

\* C10: TimeoutPrecommit(h, r) is requested once, by the first event that
\* leaves r the current round with 2f+1 or more precommits in its log,
\* whatever the step: never twice, never with fewer precommits, never for
\* another round than the current one, never for a height the Process has
\* left, and a precommit of another height changes nothing.
C10_TimeoutPrecommitOnce ==
    [][LET requested(r) == timers'[<<"TimeoutPrecommit", r>>]
           enough(s, r) == LenVotes(s.PrecommitLogs, r) >= 2 * F + 1
       IN  /\ \A r \in Rounds :
                 /\ requested(r) <= 1
                 /\ requested(r) = 1 => enough(p', r) /\ r <= p'.CurrentRound
                 /\ (IF SameHeight
                     THEN requested(r) > timers[<<"TimeoutPrecommit", r>>]
                     ELSE requested(r) > 0) =>
                        /\ r = p'.CurrentRound
                        /\ ~(SameRound /\ enough(p, r))
           /\ enough(p', p'.CurrentRound) => requested(p'.CurrentRound) = 1
           /\ requested(InvalidRound) = 0
           /\ \A h \in {p'.CurrentHeight - 1, p'.CurrentHeight + 1},
                 v \in Values \cup {NilValue},
                 q \in NextSenders(p'.PrecommitLogs, p'.CurrentRound) :
                 Precommit(p', VoteMsg(h, p'.CurrentRound, v, q)) = p']_vars

\* The timeout was requested in a step before Precommitting, and the round
\* has gone on to hold more than 2f+1 precommits.
C10_RequestedOnce ==
    /\ timers[<<"TimeoutPrecommit", p.CurrentRound>>] = 1
    /\ LenVotes(p.PrecommitLogs, p.CurrentRound) > 2 * F + 1
    /\ p.CurrentStep < Precommitting

(***************************************************************************)
(* A Process under observation that is handed any message: of its height, *)
(* the one below or above, from the scheduled proposer or from another,    *)
(* with a value the Validator accepts or rejects, for the first time, once *)
(* more, or after a different message of the same sender.  A timeout that  *)
(* the Process has requested fires at any later time and any number of     *)
(* times, also after the Process has left its round or its height.  Every  *)
(* event is put on record in "last", the requests to the Timer in "alarms".*)
(* An event that leaves the Process and the records of its collaborators   *)
(* as they were is put on record and not pursued: what can follow it is    *)
(* what can follow the state it was handed to.                             *)
(***************************************************************************)
\* Number of messages in the logs at the first height and at the second, and
\* the last round of the messages handed over.
MaxAnyMsgs == 4
MaxAnyLaterMsgs == 1
MaxAnyRound == 1

Event3(event, m, s) ==
    [event |-> event, m |-> m, out |-> s.out, effect |-> After(Now, s) # Now]
TimeoutMsg(h, r) == ProposeMsg(h, r, NilValue, InvalidRound, NoPid)

Observed(event, m, s) ==
    LET g == After(Now, s)
    IN  /\ p' = g.p
        /\ timers' = g.timers
        /\ sent' = g.sent
        /\ commits' = g.commits
        /\ started' = TRUE
        /\ alarms' = alarms \cup Alarms(s, Whoami)
        /\ last' = Event3(event, m, s)
        /\ UNCHANGED << procs, net, decided, machine, replica, run >>

AnyReceiving(s) ==
    /\ last.effect
    /\ s.CurrentHeight <= 2
    /\ LogSize(s) < (IF s.CurrentHeight = 1 THEN MaxAnyMsgs ELSE MaxAnyLaterMsgs)

\* The senders of the votes handed over for a round: those that have voted in
\* it, and the first in the signatory list that has not.
AnySenders(logs, round) ==
    NextSenders(logs, round) \cup {q \in Pids : logs[round][q] # NoMsg}

\* The heights of the messages handed over: the current one, the one below
\* and the one above.
AnyHeights(s) == {h \in (s.CurrentHeight - 1)..(s.CurrentHeight + 1) : h >= 1}

InitAny == Init

AnyStart ==
    /\ ~started
    /\ Observed("Start", TimeoutMsg(p.CurrentHeight, 0), Start(p))

AnyPropose ==
    /\ started
    /\ AnyReceiving(p)
    /\ \E h \in AnyHeights(p), r \in 0..MaxAnyRound,
          v \in Values \cup {InvalidValue}, vr \in {InvalidRound, 0} :
          \E q \in {Schedule(h, r), (Schedule(h, r) + 1) % (3 * F + 1)} :
              LET m == ProposeMsg(h, r, v, vr, q)
              IN  Observed("Propose", m, Propose(p, m))

AnyPrevote ==
    /\ started
    /\ AnyReceiving(p)
    /\ \E h \in AnyHeights(p), r \in 0..MaxAnyRound,
          v \in Values \cup {NilValue} :
          \E q \in AnySenders(p.PrevoteLogs, r) :
              LET m == ProposeMsg(h, r, v, InvalidRound, q)
              IN  Observed("Prevote", m, Prevote(p, m))

AnyPrecommit ==
    /\ started
    /\ AnyReceiving(p)
    /\ \E h \in AnyHeights(p), r \in 0..MaxAnyRound,
          v \in Values \cup {NilValue} :
          \E q \in AnySenders(p.PrecommitLogs, r) :
              LET m == ProposeMsg(h, r, v, InvalidRound, q)
              IN  Observed("Precommit", m, Precommit(p, m))

AnyTimeoutPropose ==
    \E a \in alarms :
        /\ last.effect
        /\ a[2] = "TimeoutPropose"
        /\ Observed("OnTimeoutPropose", TimeoutMsg(a[3], a[4]),
                    OnTimeoutPropose(p, a[3], a[4]))

AnyTimeoutPrevote ==
    \E a \in alarms :
        /\ last.effect
        /\ a[2] = "TimeoutPrevote"
        /\ Observed("OnTimeoutPrevote", TimeoutMsg(a[3], a[4]),
                    OnTimeoutPrevote(p, a[3], a[4]))

AnyTimeoutPrecommit ==
    \E a \in alarms :
        /\ last.effect
        /\ a[2] = "TimeoutPrecommit"
        /\ a[4] < MaxRound
        /\ Observed("OnTimeoutPrecommit", TimeoutMsg(a[3], a[4]),
                    OnTimeoutPrecommit(p, a[3], a[4]))

NextAny ==
    \/ AnyStart
    \/ AnyPropose
    \/ AnyPrevote
    \/ AnyPrecommit
    \/ AnyTimeoutPropose
    \/ AnyTimeoutPrevote
    \/ AnyTimeoutPrecommit

SpecAny == InitAny /\ [][NextAny]_vars

(***************************************************************************)
(* The skip rule, the rounds and the timeouts.                             *)
(***************************************************************************)
\* The senders of the messages logged at a round.
SendersAt(s, round) ==
    {q \in Pids : s.PrevoteLogs[round][q] # NoMsg \/ s.PrecommitLogs[round][q] # NoMsg}
    \cup (IF s.ProposeLogs[round] # NoPropose THEN {s.ProposeLogs[round].From} ELSE {})

\* A message moved the Process to a later round of its height: only the skip
\* rule does so (a timeout that starts the next round logs no message).
Skipped == SameHeight /\ p'.CurrentRound > p.CurrentRound /\ ~SameLogs

\* C11: the Process moves to a later round through the skip rule only if
\* messages of at least F+1 distinct senders are logged at that round; the
\* messages of a single sender never start a round.
C11_SkipNeedsDistinctSenders ==
    [][Skipped => Cardinality(SendersAt(p', p'.CurrentRound)) >= F + 1]_vars

\* The requests of the timeout call for the round made by the last event.
NewTimers(call, round) ==
    timers'[<<call, round>>] - (IF SameHeight THEN timers[<<call, round>>] ELSE 0)
NewProposes == SelectSeq(NewSent, LAMBDA c : c.call = "BroadcastPropose")

\* The event called StartRound: the Process is in another round or height.
RoundStarted == ~SameHeight \/ p'.CurrentRound # p.CurrentRound

C12_RequestedTimeout ==
    /\ p.CurrentRound = 2
    /\ timers[<<"TimeoutPropose", 2>>] = 1
    /\ \A i \in 1..Len(sent) : ~(sent[i].call = "BroadcastPropose" /\ sent[i].r = 2)
\* A Process proposed the value of its Proposer.
C12_ProposedOwnValue ==
    /\ p.CurrentRound = 1
    /\ VotesFor(p.PrecommitLogs, 0, NilValue) = 2 * F + 1
    /\ \E i \in 1..Len(sent) :
          sent[i] = BroadcastPropose(1, 1, ProposerPropose(Whoami, 1, 1), InvalidRound)

\* The last event was the given timeout for the height and the round the
\* Process was in.
TimedOut(event) ==
    /\ last'.event = event
    /\ last'.m.Height = p.CurrentHeight
    /\ last'.m.Round = p.CurrentRound
OutOf(e, names) == SelectSeq(e.out, LAMBDA c : c.call \in names)

C13_TimedOutProposing ==
    /\ last.event = "OnTimeoutPropose"
    /\ last.m.Height = p.CurrentHeight
    /\ last.m.Round = p.CurrentRound
    /\ last.out # << >>
    /\ p.CurrentStep = Prevoting
\* One of the two timeouts of the current round fired in another step.
C13_TimedOutInOtherStep ==
    /\ last.event \in {"OnTimeoutPropose", "OnTimeoutPrevote"}
    /\ last.m.Height = p.CurrentHeight
    /\ last.m.Round = p.CurrentRound
    /\ ~last.effect

\* The precommit timeout of the current round has been requested and may fire.
TimeoutPrecommitDue ==
    /\ timers[<<"TimeoutPrecommit", p.CurrentRound>>] > 0
    /\ p.CurrentRound < MaxRound

\* C14: OnTimeoutPrecommit for the current height and round starts the next
\* round in whatever step the Process is: it leaves the Process at the same
\* height in the next round, with the lock, the valid value and the logs as
\* they were, without commit, and in step Proposing unless the Process then
\* prevoted upon a proposal of the new round it had logged.
C14_TimeoutPrecommitStartsNextRound ==
    TimeoutPrecommitDue =>
        LET s == OnTimeoutPrecommit(p, p.CurrentHeight, p.CurrentRound)
            r == p.CurrentRound + 1
        IN  /\ s.CurrentHeight = p.CurrentHeight
            /\ s.CurrentRound = r
            /\ s.LockedValue = p.LockedValue /\ s.LockedRound = p.LockedRound
            /\ s.ValidValue = p.ValidValue /\ s.ValidRound = p.ValidRound
            /\ s.ProposeLogs = p.ProposeLogs
            /\ s.PrevoteLogs = p.PrevoteLogs
            /\ s.PrecommitLogs = p.PrecommitLogs
            /\ Calls(s, {"Commit"}) = << >>
            /\ \/ s.CurrentStep = Proposing /\ Calls(s, {"BroadcastPrevote"}) = << >>
               \/ /\ s.CurrentStep = Prevoting
                  /\ s.ProposeLogs[r] # NoPropose
                  /\ Len(Calls(s, {"BroadcastPrevote"})) = 1
                  /\ Calls(s, {"BroadcastPrevote"})[1].r = r

\* A Process locked in round 1 and in step Precommitting was moved to round 2
\* by its precommit timeout: no message of round 2 is logged.
C14_NextRoundFromPrecommitting ==
    /\ p.CurrentRound = 2
    /\ p.LockedRound = 1
    /\ timers[<<"TimeoutPrecommit", 1>>] > 0
    /\ p.ProposeLogs[2] = NoPropose
    /\ LenVotes(p.PrevoteLogs, 2) = 0
    /\ LenVotes(p.PrecommitLogs, 2) = 0
\* The precommit timeout is due in each of the three steps.
C14_DueWhileProposing == TimeoutPrecommitDue /\ p.CurrentStep = Proposing
C14_DueWhilePrevoting == TimeoutPrecommitDue /\ p.CurrentStep = Prevoting
C14_DueWhilePrecommitting == TimeoutPrecommitDue /\ p.CurrentStep = Precommitting

TimeoutEvents == {"OnTimeoutPropose", "OnTimeoutPrevote", "OnTimeoutPrecommit"}

\* The timeout on record in e, handed to the Process s.
OnTimeout(s, e) ==
    CASE e.event = "OnTimeoutPropose"   -> OnTimeoutPropose(s, e.m.Height, e.m.Round)
      [] e.event = "OnTimeoutPrevote"   -> OnTimeoutPrevote(s, e.m.Height, e.m.Round)
      [] e.event = "OnTimeoutPrecommit" -> OnTimeoutPrecommit(s, e.m.Height, e.m.Round)

\* C15: a timeout for another height or round than the current ones changes
\* no field of the Process and makes no call on any collaborator; and the same
\* timeout handed over once more, right after it was handled, does the same.
C15_StaleTimeoutIgnored ==
    [][last'.event \in TimeoutEvents =>
         /\ (last'.m.Height # p.CurrentHeight \/ last'.m.Round # p.CurrentRound)
                => (p' = p /\ last'.out = << >>)
         /\ OnTimeout(p', last') = p'
    ]_vars

\* A timeout requested at the first height fired at the second.
C15_TimeoutOfLeftHeight ==
    /\ last.event \in TimeoutEvents
    /\ last.m.Height < p.CurrentHeight
\* A timeout requested in round 0 fired in round 1.
C15_TimeoutOfLeftRound ==
    /\ last.event \in TimeoutEvents
    /\ last.m.Height = p.CurrentHeight
    /\ last.m.Round < p.CurrentRound
    /\ ~last.effect

(***************************************************************************)
(* The message logs and the equivocation reports.                          *)
(***************************************************************************)
CatchCalls == {"CatchDoublePropose", "CatchDoublePrevote", "CatchDoublePrecommit"}

\* Every proposal in the log is of the scheduled proposer of its round and
\* carries a value the Validator accepts.
ProposeLogsValid ==
    \A r \in Rounds :
        p.ProposeLogs[r] # NoPropose =>
            /\ p.ProposeLogs[r].From = Schedule(p.CurrentHeight, r)
            /\ Valid(p.ProposeLogs[r].Value)

\* The last event was a Propose the Validator or the schedule rules out.
RuledOutPropose ==
    /\ last'.event = "Propose"
    /\ \/ last'.m.From # Schedule(last'.m.Height, last'.m.Round)
       \/ ~Valid(last'.m.Value)

\* C16: the propose log holds only proposals of the scheduled proposer with a
\* value the Validator accepts, and a Propose of another sender or with a
\* rejected value changes no field of the Process and causes no call, neither
\* broadcast, timer request, commit nor equivocation report.
C16_RuledOutProposeDropped ==
    /\ []ProposeLogsValid
    /\ [][RuledOutPropose => (p' = p /\ last'.out = << >>)]_vars

\* A Propose that is ruled out was handed to a Process that has a proposal of
\* the round in its log.
C16_RuledOutAfterProposal ==
    /\ last.event = "Propose"
    /\ last.m.Height = p.CurrentHeight
    /\ last.m.From # Schedule(last.m.Height, last.m.Round)
    /\ p.ProposeLogs[last.m.Round] # NoPropose

\* The vote stored for the sender and the round of the message of the last
\* event, in the log of its type, when the event began.
StoredVote ==
    IF last'.event = "Prevote"
    THEN p.PrevoteLogs[last'.m.Round][last'.m.From]
    ELSE p.PrecommitLogs[last'.m.Round][last'.m.From]
CatchDoubleVote(m, stored) ==
    IF last'.event = "Prevote"
    THEN CatchDoublePrevote(m.Height, m.Round, VoteEntry(m.Value, m.From),
                            VoteEntry(stored, m.From))
    ELSE CatchDoublePrecommit(m.Height, m.Round, VoteEntry(m.Value, m.From),
                              VoteEntry(stored, m.From))

\* C17: a vote stored for a round and a sender stays as it is while the
\* Process is at the height; a second vote of the sender for the round changes
\* no field of the Process and causes no call but, when it differs from the
\* stored one, exactly one equivocation report with (new, stored); the first
\* vote of a sender for a round causes no report.
C17_FirstVoteKept ==
    [][/\ SameHeight =>
            \A r \in Rounds, q \in Pids :
                /\ p.PrevoteLogs[r][q] # NoMsg
                       => p'.PrevoteLogs[r][q] = p.PrevoteLogs[r][q]
                /\ p.PrecommitLogs[r][q] # NoMsg
                       => p'.PrecommitLogs[r][q] = p.PrecommitLogs[r][q]
       /\ ( /\ last'.event \in {"Prevote", "Precommit"}
            /\ last'.m.Height = p.CurrentHeight
            /\ StoredVote # NoMsg )
            => /\ p' = p
               /\ last'.out = IF last'.m.Value # StoredVote
                              THEN << CatchDoubleVote(last'.m, StoredVote) >>
                              ELSE << >>
       /\ ( /\ last'.event \in {"Prevote", "Precommit"}
            /\ last'.m.Height = p.CurrentHeight
            /\ StoredVote = NoMsg )
            => OutOf(last', CatchCalls) = << >>
    ]_vars

\* A prevote that differs from the one stored for its sender was reported.
C17_DoublePrevoteCaught ==
    /\ last.event = "Prevote"
    /\ Len(last.out) = 1
    /\ last.out[1].call = "CatchDoublePrevote"
    /\ last.out[1].v # last.out[1].old.Value
    /\ p.PrevoteLogs[last.m.Round][last.m.From] = last.out[1].old.Value
\* The same for a precommit.
C17_DoublePrecommitCaught ==
    /\ last.event = "Precommit"
    /\ Len(last.out) = 1
    /\ last.out[1].call = "CatchDoublePrecommit"
    /\ p.PrecommitLogs[last.m.Round][last.m.From] = last.out[1].old.Value

\* C18: every equivocation report is about one sender: the new and the stored
\* message have the same sender and differ in content; a Propose of another
\* sender than that of the stored proposal of its round is never reported.
C18_ReportConcernsOneSender ==
    [][\A i \in 1..Len(last'.out) :
          LET c == last'.out[i]
          IN  c.call \in CatchCalls =>
                  /\ c.from = c.old.From
                  /\ c.h = p.CurrentHeight
                  /\ c.r = last'.m.Round
                  /\ <<c.v, c.vr>> # <<c.old.Value, c.old.ValidRound>>
    ]_vars

\* The scheduled proposer sent two different proposals for a round, and the
\* second was reported.
C18_ProposerCaught ==
    /\ last.event = "Propose"
    /\ Len(last.out) = 1
    /\ last.out[1].call = "CatchDoublePropose"
    /\ last.out[1].from = last.out[1].old.From

MessageEvents == {"Propose", "Prevote", "Precommit"}

\* The message on record in e, handed to the Process s.
Deliver(s, e) ==
    CASE e.event = "Propose"   -> Propose(s, e.m)
      [] e.event = "Prevote"   -> Prevote(s, VoteMsg(e.m.Height, e.m.Round, e.m.Value, e.m.From))
      [] e.event = "Precommit" -> Precommit(s, VoteMsg(e.m.Height, e.m.Round, e.m.Value, e.m.From))

\* C19: a message handed to the Process once more, right after it was handled,
\* changes no field of the Process and causes no broadcast, no timer request
\* and no commit.
C19_DeliveryIdempotent ==
    last.event \in MessageEvents =>
        LET s == Deliver(p, last)
        IN  /\ Fresh(s) = p
            /\ Calls(s, BroadcastCalls \cup TimerCalls \cup {"Commit"}) = << >>

\* A message that was stored and made the Process broadcast, request a
\* timeout or commit; and one that made it commit and leave the height.
C19_DeliveredWithEffect ==
    /\ last.event \in MessageEvents
    /\ OutOf(last, BroadcastCalls \cup TimerCalls \cup {"Commit"}) # << >>
C19_DeliveredAndCommitted ==
    /\ last.event \in MessageEvents
    /\ OutOf(last, {"Commit"}) # << >>
    /\ last.m.Height < p.CurrentHeight

C20_ResetAfterCommit ==
    /\ p.CurrentHeight = 2
    /\ Len(commits) = 1
    /\ p.LockedRound = InvalidRound
    /\ p.ValidValue = NilValue

(***************************************************************************)
(* Rounds, steps, the scope of the logs and the broadcasts of a Process.   *)
(***************************************************************************)
RoundsBehindCurrent ==
    /\ p.LockedRound <= p.CurrentRound
    /\ p.ValidRound <= p.CurrentRound
RoundAdvances ==
    /\ SameHeight => p'.CurrentRound >= p.CurrentRound
    /\ ~SameHeight => (p'.CurrentHeight = p.CurrentHeight + 1 /\ p'.CurrentRound = 0)

\* C21: the locked round and the valid round are never above the current
\* round; within a height the current round never decreases, and it returns to
\* 0 only together with an increment of the height.
C21_RoundsMonotone == []RoundsBehindCurrent /\ [][RoundAdvances]_vars

\* A Process locked in round 1 has been moved on to round 2 by messages of
\* round 2.
C21_LockBehindRound ==
    /\ p.CurrentRound = 2
    /\ p.LockedRound = 1
    /\ p.ValidRound = 1
    /\ LenVotes(p.PrevoteLogs, 2) + LenVotes(p.PrecommitLogs, 2) >= 1
\* A Process in round 1 or 2 has committed and is in round 0 of height 2.
C21_RoundZeroAfterCommit ==
    /\ p.CurrentHeight = 2
    /\ p.CurrentRound = 0
    /\ Len(commits) = 1
    /\ \E i \in 1..Len(sent) : sent[i].h = 2

\* The Process has broadcast a prevote for its current height and round.
PrevotedInRound(s, calls) ==
    \E i \in 1..Len(calls) :
        /\ calls[i].call = "BroadcastPrevote"
        /\ calls[i].h = s.CurrentHeight
        /\ calls[i].r = s.CurrentRound
StepAdvances == SameRound => p'.CurrentStep >= p.CurrentStep

\* C22: within a height and round the step only moves forward, from Proposing
\* to Prevoting to Precommitting, and a Process that is past Proposing has
\* broadcast a prevote for the round.
C22_StepsMonotone ==
    /\ [](p.CurrentStep # Proposing => PrevotedInRound(p, sent))
    /\ [][StepAdvances]_vars

\* A Process has gone through the three steps of a round.
C22_WentThroughSteps ==
    /\ p.CurrentStep = Precommitting
    /\ PrevotedInRound(p, sent)
    /\ \E i \in 1..Len(sent) :
          /\ sent[i].call = "BroadcastPrecommit"
          /\ sent[i].r = p.CurrentRound
    /\ timers[<<"TimeoutPropose", p.CurrentRound>>] > 0

\* Every entry of the logs was there before the event, at the same height, or
\* is the message of the event, which is of the height the Process is at.
StoredOfCurrentHeight ==
    LET m == last'.m
        here == m.Height = p'.CurrentHeight
    IN  /\ \A r \in Rounds :
              p'.ProposeLogs[r] # NoPropose =>
                  \/ SameHeight /\ p.ProposeLogs[r] = p'.ProposeLogs[r]
                  \/ /\ last'.event = "Propose" /\ here /\ m.Round = r
                     /\ p'.ProposeLogs[r] = ProposeEntry(m)
        /\ \A r \in Rounds, q \in Pids :
              /\ p'.PrevoteLogs[r][q] # NoMsg =>
                     \/ SameHeight /\ p.PrevoteLogs[r][q] = p'.PrevoteLogs[r][q]
                     \/ /\ last'.event = "Prevote" /\ here /\ m.Round = r /\ m.From = q
                        /\ p'.PrevoteLogs[r][q] = m.Value
              /\ p'.PrecommitLogs[r][q] # NoMsg =>
                     \/ SameHeight /\ p.PrecommitLogs[r][q] = p'.PrecommitLogs[r][q]
                     \/ /\ last'.event = "Precommit" /\ here /\ m.Round = r /\ m.From = q
                        /\ p'.PrecommitLogs[r][q] = m.Value

\* C23: the logs hold only messages of the current height; a message of a
\* lower or higher height is not stored, changes no field of the Process and
\* causes no call, so messages of a future round at another height never
\* change the round.
C23_LogsOfCurrentHeight ==
    [][/\ StoredOfCurrentHeight
       /\ (last'.event \in MessageEvents /\ last'.m.Height # p.CurrentHeight)
              => (p' = p /\ last'.out = << >>)
    ]_vars

\* A vote of a later round and of the next height was handed to a Process that
\* has F messages of that round: one more of its height would start the round.
C23_FutureRoundOfNextHeight ==
    /\ last.event \in {"Prevote", "Precommit"}
    /\ last.m.Height = p.CurrentHeight + 1
    /\ last.m.Round > p.CurrentRound
    /\ LenVotes(p.PrevoteLogs, last.m.Round) + LenVotes(p.PrecommitLogs, last.m.Round) = F
\* A message of the height the Process has left was handed to it.
C23_MessageOfLeftHeight ==
    /\ last.event \in MessageEvents
    /\ last.m.Height < p.CurrentHeight
    /\ ~last.effect

\* C24: a Process never equivocates: the Broadcaster receives at most one
\* Propose, one Prevote and one Precommit of the Process for a height and
\* round, each for the height the Process is at.
C24_NoSelfEquivocation ==
    /\ \A i \in 1..Len(sent) : sent[i].h = p.CurrentHeight
    /\ \A i, j \in 1..Len(sent) :
          (sent[i].call = sent[j].call /\ sent[i].r = sent[j].r) => i = j

\* A Process has proposed, prevoted and precommitted a value in a round.
C24_BroadcastAllThree ==
    \E r \in Rounds, v \in Values :
        /\ \E i \in 1..Len(sent) : sent[i].call = "BroadcastPropose" /\ sent[i].r = r
        /\ \E i \in 1..Len(sent) : sent[i].call = "BroadcastPrevote" /\ sent[i].r = r
        /\ \E i \in 1..Len(sent) :
              sent[i] = BroadcastPrecommit(p.CurrentHeight, r, v)
\* A Process has prevoted in two rounds of a height.
C24_PrevotedInTwoRounds ==
    \E i, j \in 1..Len(sent) :
        /\ sent[i].call = "BroadcastPrevote" /\ sent[j].call = "BroadcastPrevote"
        /\ sent[i].r < sent[j].r

\* The last event was a Propose of the scheduled proposer for the height and
\* round of a Process in step Proposing without proposal of the round, with a
\* value the Validator rejects and without valid round or with a valid round
\* that has 2F+1 prevotes for the value.
InvalidProposalWhileProposing ==
    LET m == last'.m
    IN  /\ last'.event = "Propose"
        /\ m.Height = p.CurrentHeight
        /\ m.Round = p.CurrentRound
        /\ m.From = Schedule(m.Height, m.Round)
        /\ ~Valid(m.Value)
        /\ p.CurrentStep = Proposing
        /\ p.ProposeLogs[m.Round] = NoPropose
        /\ \/ m.ValidRound = InvalidRound
           \/ /\ m.ValidRound < p.CurrentRound
              /\ VotesFor(p.PrevoteLogs, m.ValidRound, m.Value) >= 2 * F + 1

\* C25: upon a Propose of the scheduled proposer for the current round with a
\* value the Validator rejects, a Process in step Proposing broadcasts
\* Prevote(Nil) for the round and moves to step Prevoting.
C25_PrevoteNilUponInvalidProposal ==
    [][InvalidProposalWhileProposing =>
          /\ \E i \in 1..Len(last'.out) :
                last'.out[i] = BroadcastPrevote(p.CurrentHeight, p.CurrentRound, NilValue)
          /\ p'.CurrentStep >= Prevoting
    ]_vars

C26_CommittedValue == Len(commits) >= 1 /\ commits[1].v \in Values

(***************************************************************************)
(* The Replica that is called with each message (package replica).  It     *)
(* tests the message, hands it to its Process or pushes it onto its message *)
(* queue, hands over the queued messages of the height of the Process, and  *)
(* saves the state of the Process when the call returns.  A call that hands *)
(* over queued messages takes several steps, so that the states between two *)
(* messages are states of the model.                                       *)
(***************************************************************************)
MaxReplicaMsgs == 5
MaxReplicaLaterMsgs == 1
MaxQueued == 3

OurShard == "shard"
OtherShard == "other"
Signatories == Pids
\* A signatory that is not in the base block.
Stranger == 3 * F + 1

ReplicaValues == {"v1"}

\* A message as the Replica receives it: the message of the Process, its type,
\* its shard, and whether its signature is that of its sender.
ReplicaMsg(type, m, shard, signed) ==
    [type |-> type, m |-> m, Shard |-> shard, Signed |-> signed]

\* The record of a call of HandleMessage: the message, whether the call changed
\* the Process or the queue, and the messages handed to the Process with the
\* height of the Process at that moment.
CallOf(m, effect, handed) == [m |-> m, effect |-> effect, handed |-> handed]
NoCall == CallOf(ReplicaMsg("none", NoEvent.m, OurShard, TRUE), TRUE, << >>)
Handed(m, s) == [m |-> m, at |-> s.CurrentHeight]

signatoryInBaseBlock(sig) == sig \in Signatories
Verify(m) == m.Signed

\* The message queue: Push appends, PopUntil takes the messages of a height
\* out, in the order of their arrival.
Push(queue, m) == Append(queue, m)
PopUntil(queue, height) ==
    [popped |-> SelectSeq(queue, LAMBDA m : m.m.Height = height),
     rest   |-> SelectSeq(queue, LAMBDA m : m.m.Height # height)]

\* Process.HandleMessage: the entry point of the type of the message.
ProcessHandleMessage(s, m) ==
    CASE m.type = "Propose" -> Propose(s, m.m)
      [] m.type = "Prevote" -> Prevote(s, m.m)
      [] m.type = "Precommit" -> Precommit(s, m.m)

\* The tests of HandleMessage without the test of the signature.
RefusedUnlessSigned(s, m) ==
    \/ m.Shard # OurShard
    \/ m.m.Height < s.CurrentHeight
    \/ ~signatoryInBaseBlock(m.m.From)

\* The tests of HandleMessage that end the call.
Refused(s, m) ==
    \/ m.Shard # OurShard
    \/ m.m.Height < s.CurrentHeight
    \/ ~signatoryInBaseBlock(m.m.From)
    \/ ~Verify(m)
\* No message is buffered.
BufferedNever(s, m) == FALSE
Buffered(s, m) == m.m.Height > s.CurrentHeight /\ m.type # "Propose"

NewReplica ==
    [pc |-> "idle", queue |-> << >>, batch |-> << >>,
     saved |-> DefaultProcess(Whoami), unsaved |-> 0, call |-> NoCall]

InitReplica ==
    /\ p = Constructed.p
    /\ timers = Constructed.timers
    /\ sent = Constructed.sent
    /\ commits = Constructed.commits
    /\ started = FALSE
    /\ Alone
    /\ last = NoEvent
    /\ run = << >>
    /\ machine = << >>
    /\ replica = NewReplica

Supervised(g) ==
    /\ p' = g.p
    /\ timers' = g.timers
    /\ sent' = g.sent
    /\ commits' = g.commits
    /\ UNCHANGED << started, procs, net, alarms, decided, machine, last, run >>

\* Replica.Start
ReplicaStart ==
    /\ ~started
    /\ started' = TRUE
    /\ LET g == After(Now, Start(p))
       IN  /\ p' = g.p
           /\ timers' = g.timers
           /\ sent' = g.sent
           /\ commits' = g.commits
    /\ UNCHANGED << procs, net, alarms, decided, machine, last, run, replica >>

\* The messages a Replica is called with: of the height of its Process, of the
\* height before and of the height after, well-formed or with one defect.
QueuedOf(queue, type, h) ==
    Len(SelectSeq(queue, LAMBDA m : m.type = type /\ m.m.Height = h))
VoteSenders(s, queue, type, h) ==
    IF h = s.CurrentHeight
    THEN NextSenders(IF type = "Prevote" THEN s.PrevoteLogs ELSE s.PrecommitLogs, 0)
    ELSE IF h > s.CurrentHeight
    THEN {q \in Pids : q = QueuedOf(queue, type, h)}
    ELSE {0}
WellFormed(s, queue) ==
    LET heights == {h \in (s.CurrentHeight - 1)..(s.CurrentHeight + 1) : h >= 1}
    IN  {ReplicaMsg("Propose", ProposeMsg(h, 0, v, InvalidRound, Schedule(h, 0)),
                    OurShard, TRUE) : h \in heights, v \in ReplicaValues}
        \cup UNION {{ReplicaMsg(type, ProposeMsg(h, 0, v, InvalidRound, q), OurShard, TRUE) :
                       q \in VoteSenders(s, queue, type, h), v \in ReplicaValues} :
                    type \in {"Prevote", "Precommit"}, h \in heights}
Defective(m) ==
    {[m EXCEPT !.Shard = OtherShard], [m EXCEPT !.Signed = FALSE],
     [m EXCEPT !.m.From = Stranger]}
Incoming(s, queue) ==
    LET good == WellFormed(s, queue) IN good \cup UNION {Defective(m) : m \in good}

\* Replica.HandleMessage up to the first messages taken out of the queue.
HandleMessage ==
    /\ started
    /\ replica.pc = "idle"
    /\ replica.call.effect
    /\ p.CurrentHeight <= 2
    /\ LogSize(p) < (IF p.CurrentHeight = 1 THEN MaxReplicaMsgs ELSE MaxReplicaLaterMsgs)
    /\ \E m \in Incoming(p, replica.queue) :
          IF Refused(p, m)
          THEN /\ replica' = [replica EXCEPT !.call = CallOf(m, FALSE, << >>)]
               /\ UNCHANGED << p, timers, sent, commits, started, procs, net,
                               alarms, decided, machine, last, run >>
          ELSE IF Buffered(p, m)
          THEN /\ Len(replica.queue) < MaxQueued
               /\ LET pop == PopUntil(Push(replica.queue, m), p.CurrentHeight)
                  IN  replica' = [replica EXCEPT !.pc = "draining",
                                                 !.queue = pop.rest,
                                                 !.batch = pop.popped,
                                                 !.call = CallOf(m, TRUE, << >>)]
               /\ UNCHANGED << p, timers, sent, commits, started, procs, net,
                               alarms, decided, machine, last, run >>
          ELSE LET s == ProcessHandleMessage(p, m)
                   g == After(Now, s)
                   pop == PopUntil(replica.queue, s.CurrentHeight)
               IN  /\ Supervised(g)
                   /\ replica' = [replica EXCEPT !.pc = "draining",
                                                 !.queue = pop.rest,
                                                 !.batch = pop.popped,
                                                 !.unsaved = @ + 1,
                                                 !.call = CallOf(m, g # Now, << Handed(m, p) >>)]

\* The loop of HandleMessage: the next message taken out of the queue is handed
\* to the Process; after the last one the queue is asked again.
HandleQueued ==
    /\ replica.pc = "draining"
    /\ replica.batch # << >>
    /\ LET m == Head(replica.batch)
           s == ProcessHandleMessage(p, m)
           g == After(Now, s)
           pop == IF Tail(replica.batch) = << >>
                  THEN PopUntil(replica.queue, s.CurrentHeight)
                  ELSE [popped |-> Tail(replica.batch), rest |-> replica.queue]
       IN  /\ Supervised(g)
           /\ replica' = [replica EXCEPT !.queue = pop.rest,
                                         !.batch = pop.popped,
                                         !.unsaved = @ + 1,
                                         !.call.handed = Append(@, Handed(m, p))]

\* The end of HandleMessage: the deferred Save.
HandleReturn ==
    /\ replica.pc = "draining"
    /\ replica.batch = << >>
    /\ replica' = [replica EXCEPT !.pc = "idle", !.saved = p, !.unsaved = 0]
    /\ UNCHANGED << p, timers, sent, commits, started, procs, net, alarms,
                    decided, machine, last, run >>

NextReplica ==
    \/ ReplicaStart
    \/ HandleMessage
    \/ HandleQueued
    \/ HandleReturn

SpecReplica == InitReplica /\ [][NextReplica]_vars

(***************************************************************************)
(* Properties of the Replica that is called with each message.            *)
(***************************************************************************)
\* A message the Replica has to keep from the Process that is at height h.
Unacceptable(m, h) ==
    \/ m.Shard # OurShard
    \/ m.m.Height < h
    \/ m.m.From \notin Signatories
    \/ ~m.Signed

HandsOverAcceptable ==
    \A i \in 1..Len(replica.call.handed) :
        ~Unacceptable(replica.call.handed[i].m, replica.call.handed[i].at)

RefusesUnacceptable ==
    (replica.pc = "idle" /\ replica'.call # replica.call
     /\ Unacceptable(replica'.call.m, p.CurrentHeight))
    => /\ p' = p
       /\ replica'.queue = replica.queue
       /\ replica'.batch = << >>
       /\ replica'.call.handed = << >>

C27_RefusedOtherShard ==
    replica.call.m.Shard = OtherShard /\ ~replica.call.effect
C27_RefusedLeftHeight ==
    /\ replica.call.m.m.Height < p.CurrentHeight
    /\ replica.call.m.type # "none"
    /\ replica.call.m.Shard = OurShard
    /\ replica.call.m.Signed
    /\ replica.call.m.m.From \in Signatories
    /\ ~replica.call.effect
C27_RefusedStranger ==
    replica.call.m.m.From = Stranger /\ ~replica.call.effect
Future(m, h) ==
    /\ ~Unacceptable(m, h)
    /\ m.m.Height > h
    /\ m.type # "Propose"

PushesFuture ==
    (replica.pc = "idle" /\ replica'.call # replica.call
     /\ Future(replica'.call.m, p.CurrentHeight))
    => /\ p' = p
       /\ replica'.call.handed = << >>
       /\ replica'.queue = Append(replica.queue, replica'.call.m)

NothingDueQueued ==
    replica.pc = "idle" =>
        \A i \in 1..Len(replica.queue) : replica.queue[i].m.Height > p.CurrentHeight

C28_QueuedFuture == replica.pc = "idle" /\ Len(replica.queue) >= 2

\* C29: the state of the Process is saved after every message handed to the
\* Process, before the next one is handed over: at most one message handed to
\* the Process is missing from the state last saved, and between two calls of
\* HandleMessage none is.
C29_SavedAfterEachMessage ==
    /\ replica.unsaved <= 1
    /\ replica.pc = "idle" => replica.unsaved = 0 /\ (started => replica.saved = p)

(***************************************************************************)
(* The Replica that reads its messages from channels (Run).  Producers put  *)
(* messages into the channel of their type; each turn of the loop of Run    *)
(* takes one message or timeout from a channel that has one, tests and      *)
(* inserts the message into the message queue, and flushes the queue.       *)
(***************************************************************************)
MaxCapacity == 2
MaxSubmitted == 4

Channels == {"Propose", "Prevote", "Precommit"}

NewRun ==
    [chan |-> [c \in Channels |-> << >>], mq |-> << >>,
     submitted |-> << >>, handled |-> << >>,
     cancelled |-> FALSE, returned |-> FALSE]

InitRun ==
    /\ p = Constructed.p
    /\ timers = Constructed.timers
    /\ sent = Constructed.sent
    /\ commits = Constructed.commits
    /\ started = FALSE
    /\ Alone
    /\ last = NoEvent
    /\ replica = << >>
    /\ machine = << >>
    /\ run = NewRun

filterHeight(s, height) == height >= s.CurrentHeight
filterFrom(from) == from \in Signatories

\* MessageQueue.Insert keeps the messages in the order of their arrival.
Insert(mq, m) == Append(mq, m)

\* MessageQueue.Consume hands the queued messages of the height to the
\* Process, in the order of their arrival.  The result is the Process, the
\* rest of the queue, the messages handed over with the height of the Process
\* at that moment, and the number of messages consumed.
HandNext(r, m) ==
    [s |-> ProcessHandleMessage(r.s, m), handled |-> Append(r.handled, Handed(m, r.s))]
HandOver(s, batch, handled) ==
    LET over[i \in 0..Len(batch)] ==
            IF i = 0
            THEN [s |-> s, handled |-> handled]
            ELSE HandNext(over[i - 1], batch[i])
    IN  over[Len(batch)]
Consumed(r, pop) ==
    [s |-> r.s, mq |-> pop.rest, handled |-> r.handled, n |-> Len(pop.popped)]
Popped(s, pop, handled) == Consumed(HandOver(s, pop.popped, handled), pop)
Consume(s, mq, handled) == Popped(s, PopUntil(mq, s.CurrentHeight), handled)

\* Replica.flush: Consume until nothing is consumed.  Each call of Consume but
\* the last takes a message out of the queue, so there are no more calls than
\* messages in the queue and one.
ConsumeAgain(c) == IF c.n = 0 THEN c ELSE Consume(c.s, c.mq, c.handled)
flush(s, mq, handled) ==
    LET consumed[i \in 0..(Len(mq) + 1)] ==
            IF i = 0
            THEN [s |-> s, mq |-> mq, handled |-> handled, n |-> 1]
            ELSE ConsumeAgain(consumed[i - 1])
    IN  consumed[Len(mq) + 1]

\* The Process, the queue and the channels after a turn of the loop.
Flushed(g, c, chan) ==
    /\ p' = g.p
    /\ timers' = g.timers
    /\ sent' = g.sent
    /\ commits' = g.commits
    /\ run' = [run EXCEPT !.chan = chan, !.mq = c.mq, !.handled = c.handled]
Turned(c, chan) == Flushed(After(Now, c.s), c, chan)

\* Run up to its loop: the Process is started.
RunStart ==
    /\ ~started
    /\ started' = TRUE
    /\ LET g == After(Now, Start(p))
       IN  /\ p' = g.p
           /\ timers' = g.timers
           /\ sent' = g.sent
           /\ commits' = g.commits
    /\ UNCHANGED << procs, net, alarms, decided, machine, last, run, replica >>

\* The messages the producers submit.
SubmittedOf(type, h) ==
    Len(SelectSeq(run.submitted, LAMBDA m : m.type = type /\ m.m.Height = h))
Submissions(type) ==
    LET heights == {h \in (p.CurrentHeight - 1)..(p.CurrentHeight + 1) : h >= 1}
        senders(h) == IF type = "Propose"
                      THEN {Schedule(h, 0), Stranger}
                      ELSE {q \in Pids : q = SubmittedOf(type, h)} \cup {Stranger}
    IN  UNION {{ReplicaMsg(type, ProposeMsg(h, 0, v, InvalidRound, q), OurShard, TRUE) :
                  v \in ReplicaValues, q \in senders(h)} : h \in heights}

\* Replica.Propose, Replica.Prevote, Replica.Precommit: the message enters the
\* channel of its type when the channel has room.
SubmitWithin(type, max) ==
    /\ Len(run.submitted) < max
    /\ Len(run.chan[type]) < MaxCapacity
    /\ \E m \in Submissions(type) :
          /\ \A i \in 1..Len(run.submitted) : run.submitted[i] # m
          /\ run' = [run EXCEPT !.chan[type] = Append(@, m),
                                !.submitted = Append(@, m)]
    /\ UNCHANGED << p, started, timers, sent, commits, procs, net, alarms,
                    decided, machine, last, replica >>
Submit(type) == SubmitWithin(type, MaxSubmitted)
SubmitPropose == Submit("Propose")
SubmitPrevote == Submit("Prevote")
SubmitPrecommit == Submit("Precommit")

\* A turn of the loop that takes a message from the channel of a type.
Take(type) ==
    /\ started
    /\ ~run.returned
    /\ run.chan[type] # << >>
    /\ LET m == Head(run.chan[type])
           rest == [run.chan EXCEPT ![type] = Tail(@)]
       IN  IF ~filterHeight(p, m.m.Height) \/ ~filterFrom(m.m.From)
           THEN /\ run' = [run EXCEPT !.chan = rest]
                /\ UNCHANGED << p, timers, sent, commits >>
           ELSE Turned(flush(p, Insert(run.mq, m), run.handled), rest)
    /\ UNCHANGED << started, procs, net, alarms, decided, machine, last, replica >>
TakePropose == Take("Propose")
TakePrevote == Take("Prevote")
TakePrecommit == Take("Precommit")

\* A turn of the loop that takes a timeout from the channel of the Timer.
TakeTimeout(s) ==
    /\ started
    /\ ~run.returned
    /\ Turned(flush(s, run.mq, run.handled), run.chan)
    /\ UNCHANGED << started, procs, net, alarms, decided, machine, last, replica >>
TakeTimeoutPropose ==
    \E r \in Rounds :
        /\ timers[<<"TimeoutPropose", r>>] > 0
        /\ TakeTimeout(OnTimeoutPropose(p, p.CurrentHeight, r))
TakeTimeoutPrevote ==
    \E r \in Rounds :
        /\ timers[<<"TimeoutPrevote", r>>] > 0
        /\ TakeTimeout(OnTimeoutPrevote(p, p.CurrentHeight, r))
TakeTimeoutPrecommit ==
    \E r \in Rounds :
        /\ timers[<<"TimeoutPrecommit", r>>] > 0
        /\ r < MaxRound
        /\ TakeTimeout(OnTimeoutPrecommit(p, p.CurrentHeight, r))

NextRun ==
    \/ RunStart
    \/ SubmitPropose
    \/ SubmitPrevote
    \/ SubmitPrecommit
    \/ TakePropose
    \/ TakePrevote
    \/ TakePrecommit
    \/ TakeTimeoutPropose
    \/ TakeTimeoutPrevote
    \/ TakeTimeoutPrecommit

SpecRun == InitRun /\ [][NextRun]_vars

\* The place of a message among the messages submitted.
PlaceOf(m) == CHOOSE i \in 1..Len(run.submitted) : run.submitted[i] = m

\* C30: the Replica that reads from channels hands the messages of one height
\* to the Process in the order in which the producers submitted them, whatever
\* their types.
C30_HandedInArrivalOrder ==
    \A i, j \in 1..Len(run.handled) :
        (i < j /\ run.handled[i].m.m.Height = run.handled[j].m.m.Height)
        => PlaceOf(run.handled[i].m) < PlaceOf(run.handled[j].m)

(***************************************************************************)
(* Run with a context that is cancelled.  The select of the loop has a case *)
(* for the end of the context next to the cases of the channels; with the   *)
(* context cancelled and a message or timeout waiting, the select takes any *)
(* of the cases that are ready.                                             *)
(***************************************************************************)
MaxCancelSubmitted == 3

\* The context of Run is cancelled.
Cancel ==
    /\ ~run.cancelled
    /\ run' = [run EXCEPT !.cancelled = TRUE]
    /\ UNCHANGED << p, started, timers, sent, commits, procs, net, alarms,
                    decided, machine, last, replica >>

\* The select takes the case of the cancelled context: Run returns.
RunReturn ==
    /\ started
    /\ run.cancelled
    /\ ~run.returned
    /\ run' = [run EXCEPT !.returned = TRUE]
    /\ UNCHANGED << p, started, timers, sent, commits, procs, net, alarms,
                    decided, machine, last, replica >>

CancelSubmitPropose == SubmitWithin("Propose", MaxCancelSubmitted)
CancelSubmitPrevote == SubmitWithin("Prevote", MaxCancelSubmitted)
CancelSubmitPrecommit == SubmitWithin("Precommit", MaxCancelSubmitted)

NextCancel ==
    \/ RunStart
    \/ CancelSubmitPropose
    \/ CancelSubmitPrevote
    \/ CancelSubmitPrecommit
    \/ TakePropose
    \/ TakePrevote
    \/ TakePrecommit
    \/ TakeTimeoutPropose
    \/ TakeTimeoutPrevote
    \/ TakeTimeoutPrecommit
    \/ Cancel
    \/ RunReturn

SpecCancel == InitRun /\ [][NextCancel]_vars

\* C31: once the context of Run is cancelled, Run hands no further message or
\* timeout to the Process, whatever waits in its channels.
C31_NothingHandedAfterCancel ==
    [][run.cancelled => (p' = p /\ run'.handled = run.handled /\ run'.mq = run.mq)]_vars

(***************************************************************************)
(* Four correct signatories.  All have started, the proposer of round 0 has *)
(* broadcast its proposal, and no timeout fires.  Each message in flight is *)
(* handed to each Process, the sender included.  The signatories of Prompt  *)
(* are handed every message as soon as it is sent, before anything else     *)
(* happens; the others are handed the messages at any time and in any       *)
(* order.                                                                  *)
(***************************************************************************)
Prompt == {0, 3}

\* A message of net the Process of signatory i can take.
Due(g, i, m) ==
    /\ g.procs[i].CurrentHeight = 1
    /\ m.Height = 1
    /\ HasRoom(g.procs[i], m)
TypeRank(type) ==
    CASE type = "Propose" -> 0 [] type = "Prevote" -> 1 [] type = "Precommit" -> 2
DueToPrompt == {d \in Prompt \X net : Due(SysNow, d[1], d[2])}
Before(d, e) ==
    \/ d[1] < e[1]
    \/ d[1] = e[1] /\ TypeRank(d[2].type) < TypeRank(e[2].type)
    \/ d[1] = e[1] /\ d[2].type = e[2].type /\ d[2].From <= e[2].From
Handover(i, m) == SysBecomes(SysAfter(SysNow, i, Receive(procs[i], m)))

HappySystem == SysStarted(Pids, {})

InitHappy ==
    /\ p = Constructed.p
    /\ timers = Constructed.timers
    /\ sent = Constructed.sent
    /\ commits = Constructed.commits
    /\ started = FALSE
    /\ Unobserved
    /\ procs = HappySystem.procs
    /\ net = HappySystem.net
    /\ alarms = HappySystem.alarms
    /\ decided = HappySystem.decided

\* The first of the messages in flight that a prompt signatory has not taken
\* reaches it.
DeliverPrompt ==
    \E d \in DueToPrompt :
        /\ \A e \in DueToPrompt : Before(d, e)
        /\ Handover(d[1], d[2])

\* A message in flight reaches a Process that takes its messages at any time.
DeliverLate ==
    /\ DueToPrompt = {}
    /\ \E i \in Pids \ Prompt, m \in net :
          /\ Due(SysNow, i, m)
          /\ Handover(i, m)

NextHappy ==
    \/ DeliverPrompt
    \/ DeliverLate

SpecHappy == InitHappy /\ [][NextHappy]_vars
\* A message in flight that some Process can take.  A Process that takes a
\* message it has room for logs it, so this is ENABLED <<NextHappy>>_vars.
Pending == \E i \in Pids, m \in net : Due(SysNow, i, m)
\* Every message in flight is handed over in the end: WF_vars(NextHappy), with
\* its enabling condition written out.
EventuallyDelivered == []<>(~Pending) \/ []<><<NextHappy>>_vars
SpecHappyFair == SpecHappy /\ EventuallyDelivered

AllCommitted ==
    \A i \in Pids :
        /\ decided[i] = << Commit(1, ProposerPropose(Schedule(1, 0), 1, 0)) >>
        /\ procs[i].CurrentHeight = 2
        /\ procs[i].CurrentRound = 0
NextProposalSent ==
    \E m \in net : m.type = "Propose" /\ m.Height = 2 /\ m.Round = 0
                   /\ m.From = Schedule(2, 0)

\* C32: with four correct signatories, the proposal of the proposer of round 0
\* and every message delivered in the end, in any order and without timeouts,
\* each Process commits the proposed value at height 1 once and reaches
\* height 2, round 0, where the proposer of that round broadcasts a proposal.
C32_HappyPath ==
    /\ <>[](AllCommitted /\ NextProposalSent)
    /\ [](\A i \in Pids : Len(decided[i]) <= 1)

\* All four Processes have committed.
C32_AllAtNextHeight == AllCommitted /\ NextProposalSent

(***************************************************************************)
(* The round-robin scheduler of the Replica (replica/marshal.go).  The     *)
(* scheduler is taken on its own: the Process is left as constructed, and  *)
(* `replica` holds the scheduler, the arguments of the last call of        *)
(* Schedule and its result.  Height and Round are signed integers of       *)
(* IntBits bits, converted to unsigned integers of the same width before   *)
(* they are added.                                                         *)
(***************************************************************************)
IntBits == 4
MaxSignatories == 4

MaxInt == 2 ^ (IntBits - 1) - 1
SchedHeights == 0..MaxInt
SchedRounds == 0..MaxInt
\* uint64(x): the value modulo 2^64.
Uint(x) == x % (2 ^ IntBits)
\* The sum of two unsigned integers wraps around.
UintAddNarrow(a, b) == (a + b) % (2 ^ (IntBits - 1))
UintAdd(a, b) == (a + b) % (2 ^ IntBits)

\* Lists of one to MaxSignatories signatories, each at most once.
SignatoryLists ==
    UNION {{sigs \in [1..n -> 0..(MaxSignatories - 1)] :
               \A i, j \in 1..n : sigs[i] = sigs[j] => i = j} : n \in 1..MaxSignatories}

newRoundRobinScheduler(signatories) == [signatories |-> signatories]
roundRobinSchedule(scheduler, height, round) ==
    scheduler.signatories[
        (UintAdd(Uint(height), Uint(round)) % Len(scheduler.signatories)) + 1]
rebase(scheduler, sigs) == [scheduler EXCEPT !.signatories = sigs]

NotScheduled == [height |-> -1, round |-> -1, signatory |-> -1]

\* The Process takes no part.
ProcessAside ==
    /\ p = Constructed.p
    /\ timers = Constructed.timers
    /\ sent = Constructed.sent
    /\ commits = Constructed.commits
    /\ started = FALSE
    /\ Alone
    /\ last = NoEvent
    /\ run = << >>
    /\ machine = << >>
ReplicaBecomes(r) ==
    /\ replica' = r
    /\ UNCHANGED << p, started, timers, sent, commits, procs, net, alarms, decided,
                    machine, last, run >>

InitSchedule ==
    /\ ProcessAside
    /\ \E sigs \in SignatoryLists :
          replica = [scheduler |-> newRoundRobinScheduler(sigs),
                     scheduled |-> NotScheduled, rebased |-> FALSE]

ScheduleCall ==
    \E height \in SchedHeights, round \in SchedRounds :
        ReplicaBecomes([replica EXCEPT !.scheduled =
            [height |-> height, round |-> round,
             signatory |-> roundRobinSchedule(replica.scheduler, height, round)]])

RebaseScheduler ==
    /\ ~replica.rebased
    /\ \E sigs \in SignatoryLists :
          ReplicaBecomes([scheduler |-> rebase(replica.scheduler, sigs),
                          scheduled |-> NotScheduled, rebased |-> TRUE])

NextSchedule ==
    \/ ScheduleCall
    \/ RebaseScheduler

SpecSchedule == InitSchedule /\ [][NextSchedule]_vars

Signed(sigs) == {sigs[i] : i \in 1..Len(sigs)}

ScheduledByFormula ==
    LET sigs == replica.scheduler.signatories
        n == Len(sigs)
        s == replica.scheduled
    IN  /\ s # NotScheduled => s.signatory = sigs[((s.height + s.round) % n) + 1]
        /\ \A h \in 0..(MaxInt - 1), r \in 0..(MaxInt - 1) :
              roundRobinSchedule(replica.scheduler, h, r + 1)
                  = roundRobinSchedule(replica.scheduler, h + 1, r)
        /\ \A h \in SchedHeights, r0 \in 0..(MaxInt - n + 1) :
              {roundRobinSchedule(replica.scheduler, h, r) : r \in r0..(r0 + n - 1)}
                  = Signed(sigs)
SchedulePure ==
    /\ replica'.scheduled # NotScheduled => replica'.scheduler = replica.scheduler
    /\ replica'.scheduler # replica.scheduler =>
          /\ replica'.scheduled = NotScheduled
          /\ replica'.scheduler.signatories \in SignatoryLists
\* C33: Schedule(height, round) is signatories[(height + round) mod n] for
\* every height and round from 0 on and leaves the scheduler as it is; so
\* Schedule(h, r + 1) = Schedule(h + 1, r), each signatory of the list is
\* scheduled in one of any n rounds in a row of every height, and after rebase
\* the same holds of the new list.
C33_RoundRobin == []ScheduledByFormula /\ [][SchedulePure]_vars

\* After a rebase to four signatories in another order, a height and a round
\* whose sum has gone round the list more than once and no longer fits a
\* signed integer.
C33_ScheduledAfterRebase ==
    /\ replica.rebased
    /\ replica.scheduler.signatories = << 2, 0, 3, 1 >>
    /\ replica.scheduled.height + replica.scheduled.round > MaxInt
    /\ replica.scheduled.signatory = 3

(***************************************************************************)
(* Construction of a Replica for a set of signatories: New of              *)
(* replica/replica.go, which takes them from the latest base block, New of *)
(* the channel-driven Replica of block/block.go, which is given them, and  *)
(* Replica.Rebase.  `replica` holds the signatories, the f the Process was *)
(* constructed with and the number of signatories at construction.         *)
(***************************************************************************)
MaxParticipants == 7

SignatorySets == SUBSET (0..(MaxParticipants - 1))
\* Integer division of Go, which truncates towards zero.
GoDiv(a, b) == IF a >= 0 THEN a \div b ELSE -((-a) \div b)
\* len(signatories) % 3 != 1 || len(signatories) < 4
BadParticipants(sigs) == Cardinality(sigs) % 3 # 1 \/ Cardinality(sigs) < 4

NotConstructed(sigs) ==
    [pc |-> "new", by |-> "none", signatories |-> sigs, f |-> -1, n |-> -1]
Panicked(r) == [r EXCEPT !.pc = "panicked"]

\* New of replica/replica.go.
ReplicaNewOf(sigs) ==
    IF BadParticipants(sigs)
    THEN Panicked(NotConstructed(sigs))
    ELSE [pc |-> "running", by |-> "replica", signatories |-> sigs,
          f |-> GoDiv(Cardinality(sigs) - 1, 3), n |-> Cardinality(sigs)]
\* New of block/block.go.
BlockNewOf(sigs) ==
    [pc |-> "running", by |-> "block", signatories |-> sigs,
     f |-> GoDiv(Cardinality(sigs), 3), n |-> Cardinality(sigs)]
RebaseOf(r, sigs) ==
    IF BadParticipants(sigs)
    THEN Panicked(r)
    ELSE [r EXCEPT !.signatories = sigs]

InitConstruct ==
    /\ ProcessAside
    /\ \E sigs \in SignatorySets : replica = NotConstructed(sigs)

ReplicaNew ==
    /\ replica.pc = "new"
    /\ ReplicaBecomes(ReplicaNewOf(replica.signatories))

BlockNew ==
    /\ replica.pc = "new"
    /\ ReplicaBecomes(BlockNewOf(replica.signatories))

ReplicaRebase ==
    /\ replica.pc = "running"
    /\ replica.by = "replica"
    /\ \E sigs \in SignatorySets : ReplicaBecomes(RebaseOf(replica, sigs))

NextConstruct ==
    \/ ReplicaNew
    \/ BlockNew
    \/ ReplicaRebase

SpecConstruct == InitConstruct /\ [][NextConstruct]_vars

\* C34: a Replica constructed for n signatories runs its Process with
\* f = floor((n - 1) / 3), so that 3f + 1 <= n, and signatories are accepted at
\* construction and on Rebase only when their number is 3f + 1 and 4 or more.
C34_ParticipantsAndThresholds ==
    replica.pc = "running" =>
        /\ replica.f = (replica.n - 1) \div 3
        /\ 3 * replica.f + 1 <= replica.n
        /\ replica.n % 3 = 1 /\ replica.n >= 4
        /\ ~BadParticipants(replica.signatories)

(***************************************************************************)
(* The skip rule, seen from the logs.                                      *)
(***************************************************************************)
\* The messages logged at a round: the proposal, the prevotes, the precommits.
MsgsInRound(s, round) ==
    (IF s.ProposeLogs[round] # NoPropose THEN 1 ELSE 0)
    + LenVotes(s.PrevoteLogs, round)
    + LenVotes(s.PrecommitLogs, round)
\* The rounds the last event logged a message at.
RoundsLogged ==
    {r \in Rounds : \/ p'.ProposeLogs[r] # p.ProposeLogs[r]
                    \/ p'.PrevoteLogs[r] # p.PrevoteLogs[r]
                    \/ p'.PrecommitLogs[r] # p.PrecommitLogs[r]}
NoFutureRoundDue ==
    started => \A r \in Rounds : r > p.CurrentRound => MsgsInRound(p, r) < F + 1
SkipsUponDueRound ==
    (SameHeight /\ ~SameLogs) =>
        /\ \A r \in RoundsLogged :
              /\ r <= p.CurrentRound => p'.CurrentRound = p.CurrentRound
              /\ (r > p.CurrentRound /\ MsgsInRound(p', r) = F + 1) =>
                    p'.CurrentRound = r
              /\ (r > p.CurrentRound /\ MsgsInRound(p', r) < F + 1) =>
                    p'.CurrentRound = p.CurrentRound
        /\ Cardinality(RoundsLogged) = 1

\* C35: after each event no round after the current one of the current
\* height has F+1 or more messages logged (proposal, prevotes and precommits
\* together); the message that is the (F+1)-th of a later round starts that
\* round, and a message of the current or an earlier round leaves the round
\* of the height as it is.
C35_SkipComplete == []NoFutureRoundDue /\ [][SkipsUponDueRound]_vars

\* The proposal of round 1 and one vote of it have taken the Process there.
C35_SkippedUponProposalAndVote ==
    /\ started
    /\ p.CurrentHeight = 1 /\ p.CurrentRound = 1
    /\ p.ProposeLogs[1] # NoPropose
    /\ MsgsInRound(p, 1) = F + 1
    /\ MsgsInRound(p, 0) = 0

(***************************************************************************)
(* A Process that is stopped and constructed again.  The state of the      *)
(* Process is saved after each event; the new Process is given the state   *)
(* last saved (New of replica/replica.go restores it) and is started.  The *)
(* timeouts requested before the stop are lost with the old Process; the   *)
(* record of the Broadcaster's calls is kept, as the other signatories     *)
(* have received them.  Nothing is followed after the restart.             *)
(***************************************************************************)
MaxRestartMsgs == 4

InitRestart ==
    /\ p = Constructed.p
    /\ timers = Constructed.timers
    /\ sent = Constructed.sent
    /\ commits = Constructed.commits
    /\ started = FALSE
    /\ Alone
    /\ last = NoEvent
    /\ run = << >>
    /\ machine = << >>
    /\ replica = [restored |-> FALSE]

Running == ~replica.restored

RestartStart == Running /\ DoStart
RestartPropose == Running /\ RecvPropose(1, MaxRestartMsgs, 0..MaxMsgRound)
RestartPrevote == Running /\ RecvPrevote(1, MaxRestartMsgs, 0..MaxMsgRound)
RestartPrecommit == Running /\ RecvPrecommit(1, MaxRestartMsgs, 0..MaxMsgRound)
RestartTimeoutPropose == Running /\ DoTimeoutPropose
RestartTimeoutPrevote == Running /\ DoTimeoutPrevote
RestartTimeoutPrecommit == Running /\ DoTimeoutPrecommit

\* The state last saved is restored into a new Process, and Start is called.
Restored(g) ==
    /\ p' = g.p
    /\ timers' = g.timers
    /\ sent' = g.sent
    /\ commits' = g.commits
    /\ replica' = [restored |-> TRUE]
    /\ UNCHANGED << started, procs, net, alarms, decided, machine, last, run >>
Restart ==
    /\ started
    /\ Running
    /\ Restored(After([Now EXCEPT !.timers = Constructed.timers], Start(p)))

NextRestart ==
    \/ RestartStart
    \/ RestartPropose
    \/ RestartPrevote
    \/ RestartPrecommit
    \/ RestartTimeoutPropose
    \/ RestartTimeoutPrevote
    \/ RestartTimeoutPrecommit
    \/ Restart

SpecRestart == InitRestart /\ [][NextRestart]_vars

\* The rounds of the current height the Broadcaster was called for with the
\* call more than once.
BroadcastTwice(call) ==
    {r \in Rounds : \E i, j \in 1..Len(sent) :
        i < j /\ sent[i].call = call /\ sent[j].call = call
        /\ sent[i].r = r /\ sent[j].r = r}

\* C36: a Process restored from a state saved after it had prevoted or
\* precommitted and started again broadcasts no Prevote and no Precommit for a
\* height and round it had broadcast one for before, and its locked round and
\* its valid round are not after its current round when Start has returned.
C36_RestartSafe ==
    replica.restored =>
        /\ BroadcastTwice("BroadcastPrevote") = {}
        /\ BroadcastTwice("BroadcastPrecommit") = {}
        /\ p.LockedRound <= p.CurrentRound
        /\ p.ValidRound <= p.CurrentRound

(***************************************************************************)
(* The lock and the valid value.                                           *)
(***************************************************************************)
LockBehindValid ==
    /\ p.LockedRound <= p.ValidRound
    /\ (p.LockedRound = p.ValidRound /\ p.LockedRound # InvalidRound) =>
          p.LockedValue = p.ValidValue
LockRecordsValid ==
    SameHeight =>
        /\ (p'.LockedRound # p.LockedRound \/ p'.LockedValue # p.LockedValue) =>
              /\ p'.ValidRound = p'.LockedRound
              /\ p'.ValidValue = p'.LockedValue
        /\ p'.ValidRound >= p.ValidRound

\* C37: the locked round is never after the valid round; when the two are the
\* same round, the locked value is the valid value; an event that locks a
\* value and round leaves the same value and round as valid; and the valid
\* round never goes back within a height.
C37_LockBehindValid == []LockBehindValid /\ [][LockRecordsValid]_vars

\* A Process with a valid value of round 0 has locked a value at round 1: lock
\* and valid value have moved to round 1 together.
C37_LockMovedWithValid ==
    /\ OnceFlagPrecommitUponSufficientPrevotes \in p.OnceFlags[0]
    /\ p.LockedRound = 1
    /\ p.ValidRound = 1
    /\ p.LockedValue = p.ValidValue

(***************************************************************************)
(* The state machine of package state (state/machine.go).  Its polka and   *)
(* commit builders are not part of it: what Insert, Polka and Commit       *)
(* return is an input of each transition.  A polka the builder returns for *)
(* a height is of that height, for no block or for a block of that height, *)
(* at a round that is not after the latest round the builder reports.      *)
(* NewMachine leaves the state unset; the runs also start from a machine   *)
(* that waits for the proposal of height 0, round 0.                       *)
(***************************************************************************)
MaxMachineHeight == 2
MaxMachineRound == 1

MachineHeights == 0..MaxMachineHeight
MachineRounds == 0..MaxMachineRound
NoBlock == [Height |-> -1]
Block(height) == [Height |-> height]
NoRound == -1
NoPolka == [Block |-> NoBlock, Height |-> -1, Round |-> NoRound]
BlockPolka(block, height, round) ==
    [Block |-> block, Height |-> height, Round |-> round]

\* What PolkaBuilder.Polka and CommitBuilder.Commit can return for a height:
\* a polka (the polka of a commit) or none, and the latest round or none.
BuilderResults(height) ==
    {[polka |-> NoPolka, round |-> r] : r \in {NoRound} \cup MachineRounds}
    \cup {res \in [polka : {BlockPolka(b, height, pr) :
                                 b \in {NoBlock, Block(height)},
                                 pr \in MachineRounds},
                      round : MachineRounds] : res.polka.Round <= res.round}

NoAction == [type |-> "nil"]
PreVote(block, height, round) ==
    [type |-> "PreVote", Block |-> block, Height |-> height, Round |-> round]
PreCommit(polka) == [type |-> "PreCommit", Polka |-> polka]
CommitAction(polka) == [type |-> "Commit", Polka |-> polka]

NewMachine ==
    [state |-> "nil", height |-> 0, round |-> 0, polka |-> NoPolka,
     lockedRound |-> NoRound, lockedBlock |-> NoBlock,
     action |-> NoAction, failed |-> FALSE]
Returns(m, action) == [m EXCEPT !.action = action]
\* A panic: the transition returns nothing, and the machine is used no more.
Fails(m) == [m EXCEPT !.action = NoAction, !.failed = TRUE]

preVote(m, proposedBlock) ==
    LET m1 == IF /\ m.lockedRound # NoRound
                 /\ m.polka # NoPolka
                 /\ m.lockedRound < m.polka.Round
              THEN [m EXCEPT !.lockedRound = NoRound, !.lockedBlock = NoBlock]
              ELSE m
    IN  IF m1.lockedRound # NoRound
        THEN Returns(m1, PreVote(m1.lockedBlock, m1.height, m1.round))
        ELSE IF proposedBlock # NoBlock /\ proposedBlock.Height = m1.height
        THEN Returns(m1, PreVote(proposedBlock, m1.height, m1.round))
        ELSE Returns(m1, PreVote(NoBlock, m1.height, m1.round))

\* Without a polka the last branch reads *machine.polka, a nil pointer.
preCommit(m) ==
    IF m.polka # NoPolka
    THEN IF m.polka.Block # NoBlock
         THEN Returns([m EXCEPT !.lockedRound = m.polka.Round,
                                !.lockedBlock = m.polka.Block],
                      PreCommit(m.polka))
         ELSE Returns([m EXCEPT !.lockedRound = NoRound, !.lockedBlock = NoBlock],
                      PreCommit(m.polka))
    ELSE Fails(m)

\* machine.polka after the builder has returned polka.
WithPolka(m, polka) ==
    IF polka # NoPolka /\ (m.polka = NoPolka \/ polka.Round > m.polka.Round)
    THEN [m EXCEPT !.polka = polka]
    ELSE m

\* The PreVoted case of waitForPropose and of waitForCommit.
preVotedToRound(m, inserted, res) ==
    IF ~inserted
    THEN Returns(m, NoAction)
    ELSE IF res.round = NoRound
    THEN Returns(m, NoAction)
    ELSE preVote([WithPolka(m, res.polka) EXCEPT !.round = res.round], NoBlock)

\* The part the PreCommitted cases of the three states have in common; rest
\* is what the state does when no block is committed.
preCommittedWith(m, inserted, res, rest) ==
    IF ~inserted
    THEN Returns(m, NoAction)
    ELSE IF res.round = NoRound
    THEN Returns(m, NoAction)
    ELSE IF res.polka # NoPolka /\ res.polka.Block # NoBlock
    THEN Returns([WithPolka(m, res.polka) EXCEPT !.state = "WaitingForCommit",
                                                  !.height = res.polka.Height + 1,
                                                  !.round = 0],
                 CommitAction(res.polka))
    ELSE rest
preCommittedToRound(m, res) ==
    IF res.round > m.round
    THEN preCommit([m EXCEPT !.state = "WaitingForCommit", !.round = res.round])
    ELSE Returns(m, NoAction)
\* machine.round++ and the Commit of no block for the new round.
nextRound(m) ==
    Returns([m EXCEPT !.state = "WaitingForPropose", !.round = m.round + 1],
            CommitAction(BlockPolka(NoBlock, m.height, m.round + 1)))

waitForPropose(m, t) ==
    CASE t.type = "Proposed" ->
           preVote([m EXCEPT !.state = "WaitingForPolka"], t.block)
      [] t.type = "PreVoted" -> preVotedToRound(m, t.inserted, t.res)
      [] t.type = "PreCommitted" ->
           preCommittedWith(m, t.inserted, t.res,
               preCommittedToRound(WithPolka(m, t.res.polka), t.res))
      [] t.type = "TimedOut" ->
           preVote([m EXCEPT !.state = "WaitingForPolka"], NoBlock)

waitForPolka(m, t) ==
    CASE t.type = "Proposed" -> Returns(m, NoAction)
      [] t.type = "PreVoted" ->
           IF ~t.inserted
           THEN Returns(m, NoAction)
           ELSE IF t.res.round = NoRound
           THEN Returns(m, NoAction)
           ELSE IF t.res.polka # NoPolka /\ t.res.polka.Round = m.round
           THEN preCommit([WithPolka(m, t.res.polka) EXCEPT
                               !.state = "WaitingForCommit"])
           ELSE preVote([WithPolka(m, t.res.polka) EXCEPT !.round = t.res.round],
                        NoBlock)
      [] t.type = "PreCommitted" ->
           preCommittedWith(m, t.inserted, t.res,
               preCommittedToRound(WithPolka(m, t.res.polka), t.res))
      [] t.type = "TimedOut" ->
           IF t.res.round = NoRound
           THEN Returns(m, NoAction)
           ELSE preCommit([m EXCEPT !.state = "WaitingForCommit"])

waitForCommit(m, t) ==
    CASE t.type = "Proposed" -> Returns(m, NoAction)
      [] t.type = "PreVoted" -> preVotedToRound(m, t.inserted, t.res)
      [] t.type = "PreCommitted" ->
           preCommittedWith(m, t.inserted, t.res,
               LET m1 == WithPolka(m, t.res.polka)
               IN  IF /\ t.res.polka # NoPolka
                      /\ t.res.polka.Block = NoBlock
                      /\ t.res.polka.Round = m1.round
                   THEN nextRound(m1)
                   ELSE preCommittedToRound(m1, t.res))
      [] t.type = "TimedOut" ->
           IF t.res.round = NoRound
           THEN Returns(m, NoAction)
           ELSE nextRound(m)

Transition(m, t) ==
    IF m.lockedRound = NoRound /\ m.lockedBlock # NoBlock
    THEN Fails(m)
    ELSE IF m.lockedRound # NoRound /\ m.lockedBlock = NoBlock
    THEN Fails(m)
    ELSE CASE m.state = "WaitingForPropose" -> waitForPropose(m, t)
           [] m.state = "WaitingForPolka" -> waitForPolka(m, t)
           [] m.state = "WaitingForCommit" -> waitForCommit(m, t)
           [] OTHER -> Fails(m)

InitMachine ==
    /\ p = Constructed.p
    /\ timers = Constructed.timers
    /\ sent = Constructed.sent
    /\ commits = Constructed.commits
    /\ started = FALSE
    /\ Alone
    /\ last = NoEvent
    /\ replica = << >>
    /\ run = << >>
    /\ machine \in {NewMachine, [NewMachine EXCEPT !.state = "WaitingForPropose"]}

Transitions(m) ==
    /\ ~machine.failed
    /\ m.height <= MaxMachineHeight
    /\ m.round <= MaxMachineRound
    /\ machine' = m
    /\ UNCHANGED << p, started, timers, sent, commits, procs, net, alarms, decided,
                    last, replica, run >>

TransitionProposed ==
    \E h \in MachineHeights :
        Transitions(Transition(machine, [type |-> "Proposed", block |-> Block(h)]))
TransitionPreVoted ==
    \E inserted \in BOOLEAN, res \in BuilderResults(machine.height) :
        Transitions(Transition(machine,
            [type |-> "PreVoted", inserted |-> inserted, res |-> res]))
TransitionPreCommitted ==
    \E inserted \in BOOLEAN, res \in BuilderResults(machine.height) :
        Transitions(Transition(machine,
            [type |-> "PreCommitted", inserted |-> inserted, res |-> res]))
TransitionTimedOut ==
    \E res \in BuilderResults(machine.height) :
        Transitions(Transition(machine, [type |-> "TimedOut", res |-> res]))

NextMachine ==
    \/ TransitionProposed
    \/ TransitionPreVoted
    \/ TransitionPreCommitted
    \/ TransitionTimedOut

SpecMachine == InitMachine /\ [][NextMachine]_vars

\* C38: no transition of the state machine fails, whatever the sequence of
\* Proposed, PreVoted, PreCommitted and TimedOut: the locked round is unset
\* exactly when the locked block is, and a machine that has to precommit
\* without a polka keeps its lock and returns a PreCommit.
C38_TransitionNeverFails ==
    /\ ~machine.failed
    /\ machine.lockedRound = NoRound <=> machine.lockedBlock = NoBlock

MaxBaseHeight == 2
MaxBaseSignatories == 3

BaseSignatories == 0..(MaxBaseSignatories - 1)
ZeroHash == << >>
BaseBlock(height, sigs) ==
    [height |-> height, hash |-> << height, sigs >>, sigs |-> sigs]
BaseBlocks == {BaseBlock(h, sigs) : h \in 0..MaxBaseHeight, sigs \in SUBSET BaseSignatories}
\* sigsCache is a map from signatories to answers; the empty map.
NoAnswers == << >>

\* fillBaseBlock that keeps the answers of the block before.
fillBaseBlockKeepingAnswers(cache, baseBlock) ==
    IF baseBlock.height <= cache.lastBaseBlockHeight
    THEN cache
    ELSE IF baseBlock.hash = cache.lastBaseBlockHash
    THEN cache
    ELSE [cache EXCEPT !.lastBaseBlockHeight = baseBlock.height,
                       !.lastBaseBlockHash = baseBlock.hash,
                       !.lastBaseBlockSigs = baseBlock.sigs]
fillBaseBlock(cache, baseBlock) ==
    IF baseBlock.height <= cache.lastBaseBlockHeight
    THEN cache
    ELSE IF baseBlock.hash = cache.lastBaseBlockHash
    THEN cache
    ELSE [lastBaseBlockHeight |-> baseBlock.height,
          lastBaseBlockHash |-> baseBlock.hash,
          lastBaseBlockSigs |-> baseBlock.sigs,
          sigsCache |-> NoAnswers]
newBaseBlockCache(baseBlock) ==
    fillBaseBlock([lastBaseBlockHeight |-> -1, lastBaseBlockHash |-> ZeroHash,
                   lastBaseBlockSigs |-> {}, sigsCache |-> NoAnswers],
                  baseBlock)
\* signatoryInBaseBlock: the answer, and the cache with the answer in it.
inBaseBlockOf(cache, sig) ==
    IF sig \in DOMAIN cache.sigsCache
    THEN cache.sigsCache[sig]
    ELSE sig \in cache.lastBaseBlockSigs
cacheAfterAnswer(cache, sig) ==
    [cache EXCEPT !.sigsCache =
        [s \in DOMAIN cache.sigsCache \cup {sig} |->
            IF s = sig THEN inBaseBlockOf(cache, sig) ELSE cache.sigsCache[s]]]

NoAnswer == [sig |-> -1, inBaseBlock |-> FALSE]

InitCache ==
    /\ ProcessAside
    /\ \E b \in BaseBlocks :
          replica = [cache |-> newBaseBlockCache(b), latest |-> b,
                     replaced |-> FALSE, answer |-> NoAnswer]

FillBaseBlock ==
    \E b \in BaseBlocks :
        ReplicaBecomes(
            [cache |-> fillBaseBlock(replica.cache, b),
             latest |-> IF b.height > replica.latest.height THEN b ELSE replica.latest,
             replaced |-> replica.replaced \/ b.height > replica.latest.height,
             answer |-> NoAnswer])

SignatoryInBaseBlock ==
    \E sig \in BaseSignatories :
        ReplicaBecomes(
            [replica EXCEPT !.cache = cacheAfterAnswer(replica.cache, sig),
                            !.answer = [sig |-> sig,
                                        inBaseBlock |->
                                            inBaseBlockOf(replica.cache, sig)]])

NextCache ==
    \/ FillBaseBlock
    \/ SignatoryInBaseBlock

SpecCache == InitCache /\ [][NextCache]_vars

CacheCoherent ==
    /\ replica.answer # NoAnswer =>
          (replica.answer.inBaseBlock <=> replica.answer.sig \in replica.latest.sigs)
    /\ \A sig \in DOMAIN replica.cache.sigsCache :
          replica.cache.sigsCache[sig] <=> sig \in replica.latest.sigs
    /\ replica.cache.lastBaseBlockHeight = replica.latest.height
    /\ replica.cache.lastBaseBlockSigs = replica.latest.sigs
CacheKeptOrDiscarded ==
    replica'.answer = NoAnswer =>
        \/ replica'.cache = replica.cache
        \/ /\ replica'.latest.height > replica.latest.height
           /\ replica'.latest.hash # replica.latest.hash
           /\ replica'.cache.sigsCache = NoAnswers

\* C40: signatoryInBaseBlock answers TRUE exactly for the signatories of the
\* base block of the greatest height the cache was filled with; a fill with a
\* block that is not higher than the one cached, or of the same hash, leaves
\* the cache as it is, and a new base block discards every answer cached.
C40_CacheCoherent == []CacheCoherent /\ [][CacheKeptOrDiscarded]_vars

\* A signatory of the base block before is no signatory of the one that
\* replaced it, and the cache has answered so.
C40_AnsweredAfterNewBaseBlock ==
    /\ replica.replaced
    /\ replica.answer # NoAnswer
    /\ ~replica.answer.inBaseBlock
    /\ replica.answer.sig \in DOMAIN replica.cache.sigsCache
    /\ replica.latest.height = MaxBaseHeight
====
